---- MODULE Spec2Model ----
(***************************************************************************)
(* Model of the batch request / acknowledgment engine of the Crazyflie     *)
(* host driver (crazyflie_cpp/src/Crazyflie.cpp): startBatchRequest,       *)
(* addRequest, handleRequests, handleBatchAck and the sendPacket /         *)
(* handleAck path every transmission goes through.                         *)
(*                                                                         *)
(* A packet is a sequence of bytes whose first byte is the CRTP header.    *)
(* The transport (Crazyradio / CrazyflieUSB) is the environment: every     *)
(* transmission returns an ack chosen from Acks, and the wall clock moves  *)
(* by some number of ticks while the blocking send is under way.           *)
(***************************************************************************)
EXTENDS Integers, Sequences, FiniteSets, Bags, TLC

\* ------------------------------------------------------------------ bounds

\* Largest number of entries of one batch.
MaxBatch == 2
\* Largest number of clock ticks one blocking send takes.
MaxTick == 1

\* Largest number of connections (Crazyflie / CrazyflieBroadcaster objects).
MaxConns == 2

\* Largest number of entries a device reports for a TOC.
MaxToc == 2

\* Largest number of trajectory segments uploaded without a reset.
MaxSegments == 2

\* Largest number of sendPacket calls counted for the link quality.
MaxSent == 200

\* ------------------------------------------------------- program constants

\* Length of one run of keep-alive probes (the for loop of handleRequests).
NumPings == 10
\* The keep-alive probe, a single byte 0xFF.
PingByte == 255

\* ------------------------------------------------------------- data domain

\* CRTP header bytes: 1 is the header of the requests of a batch, 2 stands
\* for a frame of any other port or channel.
Headers == {1, 2}
Bytes == {0, 1}

\* Requests handed to addRequest in the engine runs: header and one payload
\* byte, matched on that byte.
Requests == {<<1, a>> : a \in Bytes}
MatchLens == {1}

\* Crazyradio::Ack as the transport fills it in.  The data of an ack that
\* did not arrive is never read by the engine and is kept empty.
NoAck == [ack |-> FALSE, data |-> <<>>]
Acks == {NoAck} \cup {[ack |-> TRUE, data |-> <<h, a>>] : h \in Headers, a \in Bytes}

\* Arguments of handleRequests, in clock ticks.
BaseTimes == {2}
TimesPerRequest == {1}

\* Clock ticks one blocking send may take; AdvancingTicks when the clock is
\* assumed to advance with every send.
Ticks == 0..MaxTick
AdvancingTicks == 1..MaxTick

VARIABLES
    m_batchRequests,        \* sequence of [request, numBytesToMatch, finished, ack]
    m_numRequestsFinished,  \* the finished counter
    pc,                     \* where the caller is: idle, batch, send, ping, done, thrown
    baseTime,               \* arguments of the handleRequests call
    timePerRequest,
    sendPing,               \* local flag of handleRequests
    idx,                    \* position of the range-for over m_batchRequests (1-based)
    pingIdx,                \* loop variable i of the probe run
    elapsed,                \* end - start, in ticks, as last read from the clock
    timeout,                \* local timeout of handleRequests, in ticks
    ack,                    \* local Crazyradio::Ack of handleRequests
    what,                   \* message of the exception handleRequests threw, "" if none
    lastTx,                 \* bytes last handed to the transport
    numHandleAck,           \* handleAck invocations made for the last transmission
    offeredAck,             \* the ack last passed to handleBatchAck
    ackWrites,              \* per entry: number of times request.ack was assigned
    passSent,               \* entries transmitted in the Sending pass under way, in order
    probesSent,             \* probes transmitted since the last Sending pass ended
    everSent,               \* entries transmitted at least once in the call under way
    unacked,                \* entries a transmission of which came back with ack.ack false
    allMatched,             \* every transmission of this call was answered in time by
                            \* an ack matching the entry transmitted
    offered                 \* matcher runs: the bag of acks handed to handleBatchAck

callVars == <<baseTime, timePerRequest, sendPing, idx, pingIdx, elapsed, timeout, ack,
              what, lastTx, numHandleAck, offeredAck, passSent, probesSent, unacked,
              allMatched, everSent>>

\* The batch system of one Crazyflie object.
batchVars == <<m_batchRequests, m_numRequestsFinished, pc, ackWrites, callVars, offered>>

\* ------------------------------------------------- connections and radios

\* Device indices of the link URIs (radio://<devId>/...).
DevIds == {0}
Conns == 1..MaxConns
Kinds == {"Crazyflie", "CrazyflieBroadcaster"}

\* channel / datarate / address of a link URI (sampled).
LinkConfigs ==
    {[address |-> 0, channel |-> 1, datarate |-> 0],
     [address |-> 1, channel |-> 0, datarate |-> 1]}

\* What a freshly constructed Crazyradio may hold before it is configured.
FreshRadios ==
    {[address |-> 0, channel |-> 0, datarate |-> 0, ackEnable |-> FALSE, arc |-> 3],
     [address |-> 1, channel |-> 1, datarate |-> 1, ackEnable |-> TRUE, arc |-> 3]}

NoTx == [by |-> 0]

VARIABLES
    g_crazyradios,   \* per device index: the Crazyradio object, 0 for a null pointer
    g_radioMutex,    \* per device index: the connection holding the mutex, 0 if free
    radios,          \* the Crazyradio objects created so far, [devId, address, ...]
    conn,            \* per connection: its members and where its thread is
    onAir            \* the last packet transmitted: by whom, on which radio object
                     \* and with which radio settings

connVars == <<g_crazyradios, g_radioMutex, radios, conn, onAir>>

NewConn ==
    [kind |-> "Crazyflie", at |-> "new", m_devId |-> 0, m_address |-> 0, m_channel |-> 0,
     m_datarate |-> 0, m_radio |-> 0]

\* The globals as the loader leaves them (zeroed), no connection constructed.
ConnInit ==
    /\ g_crazyradios = [d \in DevIds |-> 0]
    /\ g_radioMutex = [d \in DevIds |-> 0]
    /\ radios = <<>>
    /\ conn = [c \in Conns |-> NewConn]
    /\ onAir = NoTx

\* ------------------------------------------- TOCs and parameter values

VARIABLES
    m_logTocEntries,    \* sequence of [id, type, group, name]; entry i is element i + 1
    m_paramTocEntries,  \* sequence of [id, type, readonly, group, name]
    m_paramValues,      \* the parameter value cache: id -> ParamValue (4 raw bytes)
    op,                 \* the operation under way or last run, with its locals
    raised,             \* what() of the exception that ended the last operation, "" if none
    submitted           \* the requests of the batches handleRequests was called on
                        \* in this operation

tocVars == <<m_logTocEntries, m_paramTocEntries, m_paramValues, op, raised, submitted>>

EmptyMap == [i \in {} |-> 0]

NoOp == [name |-> "none", len |-> 0, id |-> 0, value |-> 0]

\* The members as the constructor's initialisers leave them.
TocInit ==
    /\ m_logTocEntries = <<>>
    /\ m_paramTocEntries = <<>>
    /\ m_paramValues = EmptyMap
    /\ op = NoOp
    /\ raised = ""
    /\ submitted = <<>>

\* ------------------------------------------------ log block registry

\* registerLogBlock tries the ids below this one.
NumLogBlockIds == 255

VARIABLES
    m_logBlockCb,   \* the registry: block id -> callback
    logCall,        \* the last registry call: its name, argument and outcome
    pushed          \* the last log-data frame handled: its block id, the callback
                    \* invocations and the "unrequested data" lines it caused

logVars == <<m_logBlockCb, logCall, pushed>>

NoPush == [frame |-> <<>>, invoked |-> 0, dropped |-> 0]

\* What is kept of the call made before the last one.
NoPrevCall == [name |-> "none", arg |-> 0, found |-> FALSE]

NoLogCall ==
    [name |-> "none", arg |-> 0, ret |-> 0, returned |-> TRUE, threw |-> FALSE,
     found |-> FALSE, prev |-> NoPrevCall]

\* The registry as the constructor's initialiser leaves it.
LogInit ==
    /\ m_logBlockCb = [i \in {} |-> "cb"]
    /\ logCall = NoLogCall
    /\ pushed = NoPush

\* ------------------------------------------------ trajectory upload

VARIABLES
    m_lastTrajectoryId,  \* id the next trajectory segment is sent under
    addsSinceReset,      \* trajectoryAdd calls that returned since construction or
                         \* since the last trajectoryReset that returned
    trajInput,           \* arguments of the trajectoryAdd call last made
    finishOrder          \* entries of the trajectory batch under way, in the order
                         \* they were finished

trajVars == <<m_lastTrajectoryId, addsSinceReset, trajInput, finishOrder>>

NoTrajInput == <<>>

\* The constructor's initialiser m_lastTrajectoryId(0).
TrajInit ==
    /\ m_lastTrajectoryId = 0
    /\ addsSinceReset = 0
    /\ trajInput = NoTrajInput
    /\ finishOrder = <<>>

\* ------------------------------------------------ link quality

\* Length of the window of sends one link-quality sample covers.
NumWindow == 100

\* The Crazyflie objects of the process whose sends are counted (sampled).
LinkConns == {1, 2}

VARIABLES
    numPackets,             \* static local of Crazyflie::sendPacket
    numAcks,                \* static local of Crazyflie::sendPacket
    m_linkQualityCallback,  \* per Crazyflie object: an observer is set
    sent,                   \* sendPacket calls made in the process
    lastSend                \* the last sendPacket call: the object, ack.ack and the
                            \* samples it handed to the observer

linkVars == <<numPackets, numAcks, m_linkQualityCallback, sent, lastSend>>

NoSend == [by |-> 0, acked |-> FALSE, samples |-> <<>>]

\* The statics' initialisers and m_linkQualityCallback(nullptr).
LinkInit ==
    /\ numPackets = 0
    /\ numAcks = 0
    /\ m_linkQualityCallback = [c \in LinkConns |-> FALSE]
    /\ sent = 0
    /\ lastSend = NoSend

\* ------------------------------------------------ construction from a URI

\* Sizes of the global arrays g_crazyradios and g_crazyflieUSB.
MAX_RADIOS == 16
MAX_USB == 4

\* m_address when the URI names none: 0xE7E7E7E7E7, five bytes 0xE7, written
\* here by that byte since the number exceeds the checker's integers; no
\* sampled URI names an address with the same low byte.
DefaultAddress == 231

VARIABLES
    g_crazyflieUSB,  \* the indices of g_crazyflieUSB holding a CrazyflieUSB object
    ctor             \* the last constructor call made with a URI and how it ended

uriVars == <<g_crazyflieUSB, ctor>>

NoCtor ==
    [by |-> 0, kind |-> "Crazyflie", uri |-> [scheme |-> "", items |-> <<>>],
     outcome |-> "none", what |-> "", m_devId |-> 0]

UriInit ==
    /\ g_crazyflieUSB = {}
    /\ ctor = NoCtor

\* ------------------------------------------------ reboot

VARIABLES
    rebootAt,  \* the reboot call in progress and the statement it stands at
    rebootTx   \* what that call has put on the link so far

rebootVars == <<rebootAt, rebootTx>>

NoReboot == [op |-> "none", at |-> "idle"]

NoRebootTx ==
    [initAcked |-> FALSE, secondSent |-> FALSE, secondAcked |-> FALSE, second |-> <<>>,
     early |-> FALSE]

RebootInit ==
    /\ rebootAt = NoReboot
    /\ rebootTx = NoRebootTx

\* ------------------------------------------------ external position broadcast

VARIABLES
    posCall    \* the last sendPositionExternal call: its argument and its packets

posVars == <<posCall>>

NoPosCall == [by |-> 0, data |-> <<>>, packets |-> <<>>]

PosInit == posCall = NoPosCall

\* ------------------------------------------------ joystick manager

\* namespace Xbox360Buttons
Green == 0
Red == 1
Blue == 2
Yellow == 3
Back == 6
Start == 7
COUNT == 8

VARIABLES
    lastButtonState,  \* static local of Manager::joyChanged
    joyCall           \* the last joyChanged call: its message, lastButtonState at
                      \* its entry and the actions it invoked, in order

joyVars == <<lastButtonState, joyCall>>

NoJoyCall == [handled |-> FALSE, buttons |-> <<>>, prev |-> <<>>, invoked |-> <<>>]

\* static std::vector<int> lastButtonState(Xbox360Buttons::COUNT)
JoyInit ==
    /\ lastButtonState = [k \in 1..COUNT |-> 0]
    /\ joyCall = NoJoyCall

\* Members and statics of the driver besides the batch system, the link and
\* the TOC.
sideVars == <<logVars, trajVars, linkVars, uriVars, rebootVars, posVars, joyVars>>

SideInit ==
    LogInit /\ TrajInit /\ LinkInit /\ UriInit /\ RebootInit /\ PosInit /\ JoyInit

nonTrajSide == <<logVars, linkVars, uriVars, rebootVars, posVars, joyVars>>

nonLogSide == <<trajVars, linkVars, uriVars, rebootVars, posVars, joyVars>>

nonLogVars == <<batchVars, connVars, tocVars, nonLogSide>>

nonLinkVars == <<batchVars, connVars, tocVars, logVars, trajVars, uriVars, rebootVars,
                 posVars, joyVars>>

nonUriSide == <<logVars, trajVars, linkVars, rebootVars, posVars, joyVars>>

nonRebootSide == <<logVars, trajVars, uriVars, posVars, joyVars>>

nonPosSide == <<logVars, trajVars, linkVars, uriVars, rebootVars, joyVars>>

nonJoyVars == <<batchVars, connVars, tocVars, logVars, trajVars, linkVars, uriVars,
                rebootVars, posVars>>

\* The state outside the batch system of the Crazyflie object under study.
otherVars == <<connVars, tocVars, sideVars>>

OtherInit == ConnInit /\ TocInit /\ SideInit

nonConnVars == <<m_batchRequests, m_numRequestsFinished, pc, ackWrites, callVars, offered,
                 tocVars, sideVars>>

vars == <<batchVars, otherVars>>

\* ------------------------------------------------------------------ helpers

Min(a, b) == IF a < b THEN a ELSE b

\* crtp::operator== on two header bytes.
CrtpEq(a, b) == a = b

\* Variant of MemcmpEq: only the first payload byte is compared.
MemcmpEq_OneByte(ackData, request, n) == ackData[2] = request[2]

\* memcmp(&ack.data[1], &request[1], n) == 0 (the model's sequences are 1-based).
MemcmpEq(ackData, request, n) ==
    \A k \in 1..n : ackData[1 + k] = request[1 + k]

\* Variant of Matches: the !request.finished conjunct is missing.
Matches_IgnoreFinished(a, req) ==
    /\ CrtpEq(a.data[1], req.request[1])
    /\ MemcmpEq(a.data, req.request, req.numBytesToMatch)

\* The condition of the if statement of handleBatchAck for one entry.
Matches(a, req) ==
    /\ CrtpEq(a.data[1], req.request[1])
    /\ MemcmpEq(a.data, req.request, req.numBytesToMatch)
    /\ ~req.finished

\* Variant of ScanBatch: the loop does not return at the first hit and ends
\* on the last one.
ScanBatch_Last(reqs, a, i) ==
    LET hits == {j \in i..Len(reqs) : Matches(a, reqs[j])}
    IN  IF hits = {} THEN 0 ELSE CHOOSE j \in hits : \A k \in hits : k <= j

\* The for loop of handleBatchAck from entry i on: the entry it returns at,
\* or 0 when it runs past the last entry.
RECURSIVE ScanBatch(_, _, _)
ScanBatch(reqs, a, i) ==
    IF i > Len(reqs) THEN 0
    ELSE IF Matches(a, reqs[i]) THEN i
    ELSE ScanBatch(reqs, a, i + 1)

\* Variant of HandleBatchAck: ++m_numRequestsFinished is missing.
HandleBatchAck_NoCount(reqs, n, writes, a) ==
    IF ~a.ack THEN [reqs |-> reqs, n |-> n, writes |-> writes, generic |-> 0]
    ELSE LET i == ScanBatch(reqs, a, 1) IN
         IF i > 0
         THEN [reqs |-> [reqs EXCEPT ![i].ack = a, ![i].finished = TRUE],
               n |-> n,
               writes |-> [writes EXCEPT ![i] = @ + 1],
               generic |-> 0]
         ELSE [reqs |-> reqs, n |-> n, writes |-> writes, generic |-> 1]

\* Variant of HandleBatchAck: request.finished = true is missing.
HandleBatchAck_NoFlag(reqs, n, writes, a) ==
    IF ~a.ack THEN [reqs |-> reqs, n |-> n, writes |-> writes, generic |-> 0]
    ELSE LET i == ScanBatch(reqs, a, 1) IN
         IF i > 0
         THEN [reqs |-> [reqs EXCEPT ![i].ack = a],
               n |-> n + 1,
               writes |-> [writes EXCEPT ![i] = @ + 1],
               generic |-> 0]
         ELSE [reqs |-> reqs, n |-> n, writes |-> writes, generic |-> 1]

\* handleBatchAck(ack): the batch, the counter and the write counts after the
\* call, and the number of handleAck calls it made.
HandleBatchAck(reqs, n, writes, a) ==
    IF ~a.ack THEN [reqs |-> reqs, n |-> n, writes |-> writes, generic |-> 0]
    ELSE LET i == ScanBatch(reqs, a, 1) IN
         IF i > 0
         THEN [reqs |-> [reqs EXCEPT ![i].ack = a, ![i].finished = TRUE],
               n |-> n + 1,
               writes |-> [writes EXCEPT ![i] = @ + 1],
               generic |-> 0]
         ELSE [reqs |-> reqs, n |-> n, writes |-> writes, generic |-> 1]

\* sendPacket(data, length, ack) once the transport returned a: the number of
\* handleAck calls it makes.
SendPacketHandleAck(a) == IF a.ack THEN 1 ELSE 0

\* float timeout = baseTime + timePerRequest * m_batchRequests.size()
Timeout(b, t, reqs) == b + t * Len(reqs)

\* Variant of TimedOut: the deadline itself already counts as exceeded.
TimedOut_AtDeadline(e, t) == e >= t

\* Variant of TimedOut: elapsed is taken as start - end.
TimedOut_Reversed(e, t) == (0 - e) > t

\* The check made after every transmission of handleRequests.
TimedOut(e, t) == e > t

\* The entries named by the exception thrown at the deadline: its message is
\* the literal "timeout" and names none.
NamedInFailure(msg) == {}

\* The condition ending the loop of handleRequests.
AllFinished(n, reqs) == n = Len(reqs)

\* The clock read after a send that took d ticks.  Once past the deadline the
\* call throws at once, so readings are kept no further than one send past it.
ClockAfter(e, d, t) == Min(e + d, t + MaxTick)

\* ------------------------------------------------------------------- state

CallVarsInit ==
    /\ baseTime = 0
    /\ timePerRequest = 0
    /\ sendPing = FALSE
    /\ idx = 1
    /\ pingIdx = 0
    /\ elapsed = 0
    /\ timeout = 0
    /\ ack = NoAck
    /\ what = ""
    /\ lastTx = <<>>
    /\ numHandleAck = 0
    /\ offeredAck = NoAck
    /\ passSent = <<>>
    /\ probesSent = 0
    /\ unacked = {}
    /\ allMatched = TRUE
    /\ everSent = {}

Init ==
    /\ m_batchRequests = <<>>
    /\ m_numRequestsFinished = 0
    /\ pc = "idle"
    /\ ackWrites = <<>>
    /\ CallVarsInit
    /\ offered = EmptyBag
    /\ OtherInit

\* startBatchRequest().  The locals of the previous handleRequests call no
\* longer exist; they and the bookkeeping of that call are put back to their
\* initial values.
StartBatchRequest ==
    /\ pc \in {"idle", "batch", "done", "thrown"}
    /\ m_batchRequests' = <<>>
    /\ ackWrites' = <<>>
    /\ pc' = "batch"
    /\ baseTime' = 0
    /\ timePerRequest' = 0
    /\ sendPing' = FALSE
    /\ idx' = 1
    /\ pingIdx' = 0
    /\ elapsed' = 0
    /\ timeout' = 0
    /\ ack' = NoAck
    /\ what' = ""
    /\ lastTx' = <<>>
    /\ numHandleAck' = 0
    /\ offeredAck' = NoAck
    /\ passSent' = <<>>
    /\ probesSent' = 0
    /\ unacked' = {}
    /\ allMatched' = TRUE
    /\ everSent' = {}
    /\ UNCHANGED <<m_numRequestsFinished, offered, otherVars>>

\* addRequest(data, numBytes, numBytesToMatch)
AddRequest(data, numBytesToMatch) ==
    /\ pc = "batch"
    /\ Len(m_batchRequests) < MaxBatch
    /\ m_batchRequests' = Append(m_batchRequests,
           [request |-> data, numBytesToMatch |-> numBytesToMatch,
            finished |-> FALSE, ack |-> NoAck])
    /\ ackWrites' = Append(ackWrites, 0)
    /\ UNCHANGED <<m_numRequestsFinished, pc, callVars, offered, otherVars>>

\* handleRequests(baseTime, timePerRequest) up to the first pass of its loop.
HandleRequests(b, t) ==
    /\ pc = "batch"
    /\ baseTime' = b
    /\ timePerRequest' = t
    /\ elapsed' = 0
    /\ ack' = NoAck
    /\ m_numRequestsFinished' = 0
    /\ sendPing' = FALSE
    /\ timeout' = Timeout(b, t, m_batchRequests)
    /\ idx' = 1
    /\ pingIdx' = 0
    /\ pc' = "send"
    /\ everSent' = {}
    /\ UNCHANGED <<m_batchRequests, ackWrites, what, lastTx, numHandleAck, offeredAck,
                   passSent, probesSent, unacked, allMatched, offered, otherVars>>

\* Variant of NeedsSend: the finished flag is not looked at.
NeedsSend_Always(req) == TRUE

\* if (!request.finished) of the Sending pass.
NeedsSend(req) == ~req.finished

\* One iteration of the range-for of the Sending pass: the entry is skipped
\* when finished, otherwise transmitted, its ack offered to the matcher and
\* the clock checked.
SendRequest(D) ==
    /\ pc = "send"
    /\ idx <= Len(m_batchRequests)
    /\ IF ~NeedsSend(m_batchRequests[idx])
       THEN /\ idx' = idx + 1
            /\ UNCHANGED <<m_batchRequests, m_numRequestsFinished, pc, elapsed, ack,
                           what, lastTx, numHandleAck, offeredAck, ackWrites,
                           passSent, unacked, allMatched, everSent>>
       ELSE \E a \in Acks, d \in D :
            LET r == HandleBatchAck(m_batchRequests, m_numRequestsFinished, ackWrites, a)
                hit == a.ack /\ Matches(a, m_batchRequests[idx])
            IN  /\ lastTx' = m_batchRequests[idx].request
                /\ ack' = a
                /\ offeredAck' = a
                /\ numHandleAck' = SendPacketHandleAck(a) + r.generic
                /\ m_batchRequests' = r.reqs
                /\ m_numRequestsFinished' = r.n
                /\ ackWrites' = r.writes
                /\ passSent' = Append(passSent, idx)
                /\ everSent' = everSent \cup {idx}
                /\ unacked' = IF a.ack THEN unacked ELSE unacked \cup {idx}
                /\ elapsed' = ClockAfter(elapsed, d, timeout)
                /\ allMatched' = (allMatched /\ hit /\ ~TimedOut(elapsed', timeout))
                /\ IF TimedOut(elapsed', timeout)
                   THEN pc' = "thrown" /\ what' = "timeout" /\ idx' = idx
                   ELSE pc' = pc /\ what' = what /\ idx' = idx + 1
    /\ UNCHANGED <<baseTime, timePerRequest, sendPing, pingIdx, timeout, probesSent,
                   offered, otherVars>>

\* Variant of EndSendPass: sendPing is not set, the loop goes straight into
\* the next Sending pass.
EndSendPass_NoProbes ==
    /\ pc = "send"
    /\ idx > Len(m_batchRequests)
    /\ sendPing' = FALSE
    /\ passSent' = <<>>
    /\ probesSent' = 0
    /\ IF AllFinished(m_numRequestsFinished, m_batchRequests)
       THEN pc' = "done" /\ idx' = idx
       ELSE pc' = "send" /\ idx' = 1
    /\ UNCHANGED <<m_batchRequests, m_numRequestsFinished, baseTime, timePerRequest,
                   pingIdx, elapsed, timeout, ack, what, lastTx, numHandleAck, offeredAck,
                   ackWrites, unacked, allMatched, everSent, offered, otherVars>>

\* The end of the Sending pass: sendPing = true, then the completion check.
EndSendPass ==
    /\ pc = "send"
    /\ idx > Len(m_batchRequests)
    /\ sendPing' = TRUE
    /\ passSent' = <<>>
    /\ probesSent' = 0
    /\ IF AllFinished(m_numRequestsFinished, m_batchRequests)
       THEN pc' = "done" /\ pingIdx' = pingIdx
       ELSE pc' = "ping" /\ pingIdx' = 0
    /\ UNCHANGED <<m_batchRequests, m_numRequestsFinished, baseTime, timePerRequest,
                   idx, elapsed, timeout, ack, what, lastTx, numHandleAck, offeredAck,
                   ackWrites, unacked, allMatched, everSent, offered, otherVars>>

\* One iteration of the probe run: a keep-alive byte is transmitted, its ack
\* offered to the matcher and the clock checked.
SendProbe(D) ==
    /\ pc = "ping"
    /\ pingIdx < NumPings
    /\ \E a \in Acks, d \in D :
       LET r == HandleBatchAck(m_batchRequests, m_numRequestsFinished, ackWrites, a)
       IN  /\ lastTx' = <<PingByte>>
           /\ ack' = a
           /\ offeredAck' = a
           /\ numHandleAck' = SendPacketHandleAck(a) + r.generic
           /\ m_batchRequests' = r.reqs
           /\ m_numRequestsFinished' = r.n
           /\ ackWrites' = r.writes
           /\ probesSent' = probesSent + 1
           /\ elapsed' = ClockAfter(elapsed, d, timeout)
           /\ allMatched' = FALSE
           /\ IF TimedOut(elapsed', timeout)
              THEN pc' = "thrown" /\ what' = "timeout" /\ pingIdx' = pingIdx
              ELSE pc' = pc /\ what' = what /\ pingIdx' = pingIdx + 1
    /\ UNCHANGED <<baseTime, timePerRequest, sendPing, idx, timeout, passSent, unacked,
                   everSent, offered, otherVars>>

\* Variant of EndProbeRun: the probe loop is left after any probe.
EndProbeRun_Early ==
    /\ pc = "ping"
    /\ pingIdx >= 1
    /\ sendPing' = FALSE
    /\ IF AllFinished(m_numRequestsFinished, m_batchRequests)
       THEN pc' = "done" /\ idx' = idx
       ELSE pc' = "send" /\ idx' = 1
    /\ UNCHANGED <<m_batchRequests, m_numRequestsFinished, baseTime, timePerRequest,
                   pingIdx, elapsed, timeout, ack, what, lastTx, numHandleAck,
                   offeredAck, ackWrites, passSent, probesSent, unacked, allMatched,
                   everSent, offered, otherVars>>

\* The end of the probe run: sendPing = false, then the completion check.
EndProbeRun ==
    /\ pc = "ping"
    /\ pingIdx = NumPings
    /\ sendPing' = FALSE
    /\ IF AllFinished(m_numRequestsFinished, m_batchRequests)
       THEN pc' = "done" /\ idx' = idx
       ELSE pc' = "send" /\ idx' = 1
    /\ UNCHANGED <<m_batchRequests, m_numRequestsFinished, baseTime, timePerRequest,
                   pingIdx, elapsed, timeout, ack, what, lastTx, numHandleAck,
                   offeredAck, ackWrites, passSent, probesSent, unacked, allMatched,
                   everSent, offered, otherVars>>

Next ==
    \/ StartBatchRequest
    \/ \E p \in Requests, n \in MatchLens : AddRequest(p, n)
    \/ \E b \in BaseTimes, t \in TimesPerRequest : HandleRequests(b, t)
    \/ SendRequest(Ticks)
    \/ EndSendPass
    \/ SendProbe(Ticks)
    \/ EndProbeRun

Spec == Init /\ [][Next]_vars

\* The engine under the assumptions of its termination: every blocking send
\* returns and the clock has advanced when it does.  The longer base time lets
\* a call live through a whole probe run.
FairBaseTimes == BaseTimes \cup {NumPings + 2}

NextAdvancing ==
    \/ StartBatchRequest
    \/ \E p \in Requests, n \in MatchLens : AddRequest(p, n)
    \/ \E b \in FairBaseTimes, t \in TimesPerRequest : HandleRequests(b, t)
    \/ SendRequest(AdvancingTicks)
    \/ EndSendPass
    \/ SendProbe(AdvancingTicks)
    \/ EndProbeRun

FairSpec ==
    /\ Init
    /\ [][NextAdvancing]_vars
    /\ WF_vars(SendRequest(AdvancingTicks))
    /\ WF_vars(EndSendPass)
    /\ WF_vars(SendProbe(AdvancingTicks))
    /\ WF_vars(EndProbeRun)

\* ------------------------------------------------------------ matcher runs

\* The matcher on its own: a batch of unfinished entries with three-byte
\* requests matched on one or two payload bytes, and acks handed to
\* handleBatchAck one at a time, in any order.
\* (a payload byte past the matched ones plays no part and is left 0).
MatcherRequests ==
    {r \in {[request |-> <<h, a, b>>, numBytesToMatch |-> n, finished |-> FALSE,
             ack |-> NoAck] : h \in Headers, a \in Bytes, b \in Bytes, n \in {1, 2}} :
        r.numBytesToMatch = 2 \/ r.request[3] = 0}
MatcherAcks == {[ack |-> TRUE, data |-> <<h, a, b>>] : h \in Headers, a \in Bytes, b \in Bytes}

InitMatcher ==
    /\ m_batchRequests \in UNION {[1..n -> MatcherRequests] : n \in 0..MaxBatch}
    /\ m_numRequestsFinished = 0
    /\ pc = "matcher"
    /\ ackWrites = [i \in 1..Len(m_batchRequests) |-> 0]
    /\ CallVarsInit
    /\ offered = EmptyBag
    /\ OtherInit

\* handleBatchAck(a) called on the batch.
OfferAck(a) ==
    /\ pc = "matcher"
    /\ BagCardinality(offered) < MaxBatch
    /\ LET r == HandleBatchAck(m_batchRequests, m_numRequestsFinished, ackWrites, a)
       IN  /\ m_batchRequests' = r.reqs
           /\ m_numRequestsFinished' = r.n
           /\ ackWrites' = r.writes
           /\ numHandleAck' = r.generic
    /\ ack' = a
    /\ offeredAck' = a
    /\ offered' = offered (+) SetToBag({a})
    /\ UNCHANGED <<pc, baseTime, timePerRequest, sendPing, idx, pingIdx, elapsed,
                   timeout, what, lastTx, passSent, probesSent, unacked, allMatched,
                   everSent, otherVars>>

NextMatcher == \E a \in MatcherAcks : OfferAck(a)

SpecMatcher == InitMatcher /\ [][NextMatcher]_vars

\* ---------------------------------------- connections sharing a Crazyradio
\* Every connection is constructed and used by a thread of its own.  A step
\* is one statement of the constructor, or of sendPacket.

Radio(c) == conn[c].m_devId

\* std::unique_lock<std::mutex> mlock(g_radioMutex[d]) can be entered.
MutexFree(d) == g_radioMutex[d] = 0

\* The constructor parses the URI into the members.  Crazyflie goes on to
\* take the mutex, CrazyflieBroadcaster goes straight to the null test.
Construct(c, k, d, cfg) ==
    /\ conn[c].at = "new"
    /\ conn' = [conn EXCEPT ![c] =
           [kind |-> k, at |-> IF k = "Crazyflie" THEN "ctor_lock" ELSE "ctor_test",
            m_devId |-> d, m_address |-> cfg.address, m_channel |-> cfg.channel,
            m_datarate |-> cfg.datarate, m_radio |-> 0]]
    /\ UNCHANGED <<g_crazyradios, g_radioMutex, radios, onAir, nonConnVars>>

\* Crazyflie::Crazyflie: std::unique_lock mlock(g_radioMutex[m_devId])
CtorLock(c) ==
    /\ conn[c].at = "ctor_lock"
    /\ MutexFree(Radio(c))
    /\ g_radioMutex' = [g_radioMutex EXCEPT ![Radio(c)] = c]
    /\ conn' = [conn EXCEPT ![c].at = "ctor_test"]
    /\ UNCHANGED <<g_crazyradios, radios, onAir, nonConnVars>>

\* if (!g_crazyradios[m_devId])
CtorTest(c) ==
    /\ conn[c].at = "ctor_test"
    /\ conn' = [conn EXCEPT ![c].at =
           IF g_crazyradios[Radio(c)] = 0 THEN "ctor_new"
           ELSE IF conn[c].kind = "Crazyflie" THEN "ctor_unlock" ELSE "ctor_get"]
    /\ UNCHANGED <<g_crazyradios, g_radioMutex, radios, onAir, nonConnVars>>

\* g_crazyradios[m_devId] = new Crazyradio(m_devId)
CtorNew(c) ==
    /\ conn[c].at = "ctor_new"
    /\ \E r \in FreshRadios :
          radios' = Append(radios, [devId |-> Radio(c), address |-> r.address,
                                    channel |-> r.channel, datarate |-> r.datarate,
                                    ackEnable |-> r.ackEnable, arc |-> r.arc])
    /\ g_crazyradios' = [g_crazyradios EXCEPT ![Radio(c)] = Len(radios) + 1]
    /\ conn' = [conn EXCEPT ![c].at = "ctor_ack"]
    /\ UNCHANGED <<g_radioMutex, onAir, nonConnVars>>

\* g_crazyradios[m_devId]->setAckEnable(true)
CtorSetAckEnable(c) ==
    /\ conn[c].at = "ctor_ack"
    /\ radios' = [radios EXCEPT ![g_crazyradios[Radio(c)]].ackEnable = TRUE]
    /\ conn' = [conn EXCEPT ![c].at = "ctor_arc"]
    /\ UNCHANGED <<g_crazyradios, g_radioMutex, onAir, nonConnVars>>

\* g_crazyradios[m_devId]->setArc(0); a Crazyflie then leaves the block of
\* its lock.
CtorSetArc(c) ==
    /\ conn[c].at = "ctor_arc"
    /\ radios' = [radios EXCEPT ![g_crazyradios[Radio(c)]].arc = 0]
    /\ conn' = [conn EXCEPT ![c].at =
           IF conn[c].kind = "Crazyflie" THEN "ctor_unlock" ELSE "ctor_get"]
    /\ UNCHANGED <<g_crazyradios, g_radioMutex, onAir, nonConnVars>>

\* The end of the block holding mlock in Crazyflie::Crazyflie.
CtorUnlock(c) ==
    /\ conn[c].at = "ctor_unlock"
    /\ g_radioMutex' = [g_radioMutex EXCEPT ![Radio(c)] = 0]
    /\ conn' = [conn EXCEPT ![c].at = "ctor_get"]
    /\ UNCHANGED <<g_crazyradios, radios, onAir, nonConnVars>>

\* m_radio = g_crazyradios[m_devId]
CtorGet(c) ==
    /\ conn[c].at = "ctor_get"
    /\ conn' = [conn EXCEPT ![c].m_radio = g_crazyradios[Radio(c)], ![c].at = "ready"]
    /\ UNCHANGED <<g_crazyradios, g_radioMutex, radios, onAir, nonConnVars>>

\* sendPacket: std::unique_lock mlock(g_radioMutex[m_devId])
SendLock(c) ==
    /\ conn[c].at = "ready"
    /\ MutexFree(Radio(c))
    /\ g_radioMutex' = [g_radioMutex EXCEPT ![Radio(c)] = c]
    /\ conn' = [conn EXCEPT ![c].at = "send_cfg"]
    /\ UNCHANGED <<g_crazyradios, radios, onAir, nonConnVars>>

\* The ack mode a connection sends with: Crazyflie::sendPacket turns it on,
\* CrazyflieBroadcaster::sendPacket turns it off.
AckMode(k) == k = "Crazyflie"

\* sendPacket: the four tests on the radio's address, channel, data rate and
\* ack mode, each followed by its setter when the value differs.
SendConfigure(c) ==
    /\ conn[c].at = "send_cfg"
    /\ radios' = [radios EXCEPT ![conn[c].m_radio] =
           [@ EXCEPT !.address = conn[c].m_address,
                     !.channel = conn[c].m_channel,
                     !.datarate = conn[c].m_datarate,
                     !.ackEnable = AckMode(conn[c].kind)]]
    /\ conn' = [conn EXCEPT ![c].at = "send_tx"]
    /\ UNCHANGED <<g_crazyradios, g_radioMutex, onAir, nonConnVars>>

\* m_radio->sendPacket(data, length, ack) / m_radio->sendPacketNoAck(data, length)
SendTransmit(c) ==
    /\ conn[c].at = "send_tx"
    /\ onAir' = [by |-> c, radio |-> conn[c].m_radio,
                 address |-> radios[conn[c].m_radio].address,
                 channel |-> radios[conn[c].m_radio].channel,
                 datarate |-> radios[conn[c].m_radio].datarate,
                 ackEnable |-> radios[conn[c].m_radio].ackEnable]
    /\ conn' = [conn EXCEPT ![c].at = "send_unlock"]
    /\ UNCHANGED <<g_crazyradios, g_radioMutex, radios, nonConnVars>>

\* The end of the block holding mlock in sendPacket.
SendUnlock(c) ==
    /\ conn[c].at = "send_unlock"
    /\ g_radioMutex' = [g_radioMutex EXCEPT ![Radio(c)] = 0]
    /\ conn' = [conn EXCEPT ![c].at = "ready"]
    /\ UNCHANGED <<g_crazyradios, radios, onAir, nonConnVars>>

InitConn ==
    /\ m_batchRequests = <<>>
    /\ m_numRequestsFinished = 0
    /\ pc = "idle"
    /\ ackWrites = <<>>
    /\ CallVarsInit
    /\ offered = EmptyBag
    /\ OtherInit

NextConn ==
    \E c \in Conns :
        \/ \E k \in Kinds, d \in DevIds, cfg \in LinkConfigs : Construct(c, k, d, cfg)
        \/ CtorLock(c)
        \/ CtorTest(c)
        \/ CtorNew(c)
        \/ CtorSetAckEnable(c)
        \/ CtorSetArc(c)
        \/ CtorUnlock(c)
        \/ CtorGet(c)
        \/ SendLock(c)
        \/ SendConfigure(c)
        \/ SendTransmit(c)
        \/ SendUnlock(c)

SpecConn == InitConn /\ [][NextConn]_vars

\* --------------------------------------- TOC discovery and parameter writes
\* The packets of crtp.h.  A packet is <<header, payload bytes...>>; the part
\* of an item response behind its index is kept as one element.

\* The header byte of (port, channel).
Crtp(port, channel) == port * 16 + channel

crtpLogGetInfoRequest == <<Crtp(5, 0), 1>>
crtpLogGetItemRequest(i) == <<Crtp(5, 0), 0, i>>
crtpParamTocGetInfoRequest == <<Crtp(2, 0), 1>>
crtpParamTocGetItemRequest(i) == <<Crtp(2, 0), 0, i>>
crtpParamReadRequest(i) == <<Crtp(2, 1), i>>

\* The low w bytes of a 32-bit value, least significant first.
ValueBytes(v, w) == [k \in 1..w |-> (v \div (256 ^ (k - 1))) % 256]

\* crtpParamWriteRequest<T>(id, value) for a T of w bytes.
crtpParamWriteRequest(id, v, w) == <<Crtp(2, 2), id>> \o ValueBytes(v, w)

\* ParamType: the packed type byte, length | type << 2 | sign << 3.
ParamTypeUint8 == 8
ParamTypeInt8 == 0
ParamTypeUint16 == 9
ParamTypeInt16 == 1
ParamTypeUint32 == 10
ParamTypeInt32 == 2
ParamTypeFloat == 6
ParamTypes == {ParamTypeUint8, ParamTypeInt8, ParamTypeUint16, ParamTypeInt16,
               ParamTypeUint32, ParamTypeInt32, ParamTypeFloat}

\* What the device may answer (sampled): the rest of a log item response, of
\* a parameter item response, and the raw value of a parameter.
LogItems ==
    {[type |-> 1, group |-> "pm", name |-> "vbat"],
     [type |-> 7, group |-> "stabilizer", name |-> "roll"]}
ParamItems ==
    {[length |-> 0, type |-> 0, sign |-> 1, readonly |-> FALSE, group |-> "ring", name |-> "effect"],
     [length |-> 2, type |-> 1, sign |-> 0, readonly |-> TRUE, group |-> "cpu", name |-> "flash"]}
Values == {7, 66051}
TocIndices == 0..(MaxToc - 1)
ParamIds == 0..MaxToc

Response(data) == [ack |-> TRUE, data |-> data]

TocAcks ==
    {Response(<<Crtp(port, 0), 1, n>>) : port \in {2, 5}, n \in 0..MaxToc}
    \cup {Response(<<Crtp(5, 0), 0, i, item>>) : i \in TocIndices, item \in LogItems}
    \cup {Response(<<Crtp(2, 0), 0, i, item>>) : i \in TocIndices, item \in ParamItems}
    \cup {Response(<<Crtp(2, 1), i, v>>) : i \in TocIndices, v \in Values}
    \cup {Response(<<Crtp(2, 2), i>>) : i \in ParamIds}

\* getRequestResult<T>(index): the bytes of the ack kept in entry index.
GetRequestResult(index) == m_batchRequests[index + 1].ack.data

\* The entry addRequest(data, numBytes, numBytesToMatch) appends.
BatchEntry(data, numBytesToMatch) ==
    [request |-> data, numBytesToMatch |-> numBytesToMatch, finished |-> FALSE,
     ack |-> NoAck]

\* Variant of LogItemBatch: only the command byte is matched.
LogItemBatch_MatchOne(len) ==
    [k \in 1..len |-> BatchEntry(crtpLogGetItemRequest(k - 1), 1)]

\* requestLogToc: the batch of item requests.
LogItemBatch(len) ==
    [k \in 1..len |-> BatchEntry(crtpLogGetItemRequest(k - 1), 2)]

\* requestParamToc: the batch of item and value requests, interleaved.
ParamItemBatch(len) ==
    [k \in 1..(2 * len) |->
        IF k % 2 = 1
        THEN BatchEntry(crtpParamTocGetItemRequest((k - 1) \div 2), 2)
        ELSE BatchEntry(crtpParamReadRequest((k - 2) \div 2), 1)]

\* std::vector::resize(n): the first n elements kept, new ones value-initialised.
Resize(seq, n, fresh) == [k \in 1..n |-> IF k <= Len(seq) THEN seq[k] ELSE fresh]

\* requestLogToc: m_logTocEntries after the decoding loop.
DecodeLogToc(old, len) ==
    LET sized == Resize(old, len, [id |-> 0, type |-> 0, group |-> "", name |-> ""])
    IN  [k \in 1..len |->
            LET response == GetRequestResult(k - 1)[4]
            IN  [sized[k] EXCEPT !.id = k - 1, !.type = response.type,
                                 !.group = response.group, !.name = response.name]]

\* requestParamToc: m_paramTocEntries after the decoding loop.
DecodeParamToc(old, len) ==
    LET sized == Resize(old, len, [id |-> 0, type |-> 0, readonly |-> FALSE,
                                   group |-> "", name |-> ""])
    IN  [k \in 1..len |->
            LET r == GetRequestResult((k - 1) * 2 + 0)[4]
            IN  [sized[k] EXCEPT !.id = k - 1,
                                 !.type = r.length + 4 * r.type + 8 * r.sign,
                                 !.readonly = r.readonly,
                                 !.group = r.group, !.name = r.name]]

\* requestParamToc: m_paramValues after the decoding loop (m_paramValues[i] = v).
DecodeParamValues(old, len) ==
    [id \in (DOMAIN old) \cup (0..(len - 1)) |->
        IF id < len THEN GetRequestResult(id * 2 + 1)[3] ELSE old[id]]

Idle == pc \in {"idle", "done", "thrown"}

\* requestLogToc / requestParamToc up to the first handleRequests call.
RequestToc(which) ==
    /\ Idle
    /\ LET info == IF which = "log" THEN crtpLogGetInfoRequest
                   ELSE crtpParamTocGetInfoRequest
       IN  /\ m_batchRequests' = <<BatchEntry(info, 1)>>
           /\ submitted' = <<info>>
    /\ ackWrites' = <<0>>
    /\ m_numRequestsFinished' = 0
    /\ pc' = "info"
    /\ op' = [NoOp EXCEPT !.name = which]
    /\ raised' = ""
    /\ UNCHANGED <<callVars, offered, connVars, sideVars, m_logTocEntries, m_paramTocEntries,
                   m_paramValues>>

\* handleRequests under way: the ack of a transmission reaches handleBatchAck.
DeviceAnswer(a) ==
    /\ pc \in {"info", "items", "write"}
    /\ LET r == HandleBatchAck(m_batchRequests, m_numRequestsFinished, ackWrites, a)
       IN  /\ m_batchRequests' = r.reqs
           /\ m_numRequestsFinished' = r.n
           /\ ackWrites' = r.writes
    /\ UNCHANGED <<pc, callVars, offered, otherVars>>

\* handleRequests throws at its deadline; the exception leaves the operation.
\* An empty batch returns before anything is sent.
BatchTimeout ==
    /\ pc \in {"info", "items", "write"}
    /\ Len(m_batchRequests) > 0
    /\ pc' = "thrown"
    /\ raised' = "timeout"
    /\ UNCHANGED <<m_batchRequests, m_numRequestsFinished, ackWrites, callVars, offered,
                   connVars, sideVars, m_logTocEntries, m_paramTocEntries, m_paramValues, op,
                   submitted>>

\* Variant of InfoDone: the TOC is resized as soon as the count is known.
InfoDone_ResizeFirst ==
    /\ pc = "info"
    /\ AllFinished(m_numRequestsFinished, m_batchRequests)
    /\ LET len == GetRequestResult(0)[3]
           batch == IF op.name = "log" THEN LogItemBatch(len) ELSE ParamItemBatch(len)
       IN  /\ op' = [op EXCEPT !.len = len]
           /\ m_batchRequests' = batch
           /\ ackWrites' = [k \in 1..Len(batch) |-> 0]
           /\ submitted' = submitted \o [k \in 1..Len(batch) |-> batch[k].request]
           /\ m_logTocEntries' =
                  IF op.name = "log"
                  THEN Resize(m_logTocEntries, len,
                              [id |-> 0, type |-> 0, group |-> "", name |-> ""])
                  ELSE m_logTocEntries
           /\ m_paramTocEntries' =
                  IF op.name = "param"
                  THEN Resize(m_paramTocEntries, len,
                              [id |-> 0, type |-> 0, readonly |-> FALSE, group |-> "",
                               name |-> ""])
                  ELSE m_paramTocEntries
    /\ m_numRequestsFinished' = 0
    /\ pc' = "items"
    /\ UNCHANGED <<callVars, offered, connVars, sideVars, m_paramValues, raised>>

\* The first handleRequests returned: the count is read and the batch of item
\* requests built and handed to handleRequests.
InfoDone ==
    /\ pc = "info"
    /\ AllFinished(m_numRequestsFinished, m_batchRequests)
    /\ LET len == GetRequestResult(0)[3]
           batch == IF op.name = "log" THEN LogItemBatch(len) ELSE ParamItemBatch(len)
       IN  /\ op' = [op EXCEPT !.len = len]
           /\ m_batchRequests' = batch
           /\ ackWrites' = [k \in 1..Len(batch) |-> 0]
           /\ submitted' = submitted \o [k \in 1..Len(batch) |-> batch[k].request]
    /\ m_numRequestsFinished' = 0
    /\ pc' = "items"
    /\ UNCHANGED <<callVars, offered, connVars, sideVars, m_logTocEntries, m_paramTocEntries,
                   m_paramValues, raised>>

\* The second handleRequests returned: the members are resized and filled.
ItemsDone ==
    /\ pc = "items"
    /\ AllFinished(m_numRequestsFinished, m_batchRequests)
    /\ IF op.name = "log"
       THEN /\ m_logTocEntries' = DecodeLogToc(m_logTocEntries, op.len)
            /\ UNCHANGED <<m_paramTocEntries, m_paramValues>>
       ELSE /\ m_paramTocEntries' = DecodeParamToc(m_paramTocEntries, op.len)
            /\ m_paramValues' = DecodeParamValues(m_paramValues, op.len)
            /\ UNCHANGED m_logTocEntries
    /\ pc' = "done"
    /\ UNCHANGED <<m_batchRequests, m_numRequestsFinished, ackWrites, callVars, offered,
                   connVars, sideVars, op, raised, submitted>>

\* setParam: sizeof(T) of the crtpParamWriteRequest<T> the switch picks for
\* entry.type, 0 where no case matches.
WriteWidth(type) ==
    CASE type = ParamTypeUint8 -> 1
      [] type = ParamTypeInt8 -> 1
      [] type = ParamTypeUint16 -> 2
      [] type = ParamTypeInt16 -> 2
      [] type = ParamTypeUint32 -> 4
      [] type = ParamTypeInt32 -> 4
      [] type = ParamTypeFloat -> 4
      [] OTHER -> 0

\* Variant of WriteBatch: entries marked readonly are passed over.
WriteBatch_RejectReadonly(entries, id, value) ==
    LET hit == SelectSeq(entries, LAMBDA e : e.id = id /\ ~e.readonly /\ WriteWidth(e.type) > 0)
    IN  [k \in 1..Len(hit) |->
            BatchEntry(crtpParamWriteRequest(id, value, WriteWidth(hit[k].type)), 1)]

\* setParam: the batch its loop over m_paramTocEntries builds.
WriteBatch(entries, id, value) ==
    LET hit == SelectSeq(entries, LAMBDA e : e.id = id /\ WriteWidth(e.type) > 0)
    IN  [k \in 1..Len(hit) |->
            BatchEntry(crtpParamWriteRequest(id, value, WriteWidth(hit[k].type)), 1)]

\* Variant of Found: any entry will do.
Found_Any(entries, id) == entries # <<>>

\* setParam: found after the loop.
Found(entries, id) == \E k \in 1..Len(entries) : entries[k].id = id

\* setParam(id, value) up to the throw or the handleRequests call.
SetParam(id, value) ==
    /\ Idle
    /\ op' = [NoOp EXCEPT !.name = "setParam", !.id = id, !.value = value]
    /\ m_numRequestsFinished' = 0
    /\ IF Found(m_paramTocEntries, id)
       THEN LET batch == WriteBatch(m_paramTocEntries, id, value)
            IN  /\ m_batchRequests' = batch
                /\ ackWrites' = [k \in 1..Len(batch) |-> 0]
                /\ submitted' = [k \in 1..Len(batch) |-> batch[k].request]
                /\ pc' = "write"
                /\ raised' = ""
       ELSE /\ m_batchRequests' = <<>>
            /\ ackWrites' = <<>>
            /\ submitted' = <<>>
            /\ pc' = "thrown"
            /\ raised' = "Could not find parameter with id"
    /\ UNCHANGED <<callVars, offered, connVars, sideVars, m_logTocEntries, m_paramTocEntries,
                   m_paramValues>>

\* Variant of CacheWrite: the cache is left alone.
CacheWrite_Skip(cache, id, value) == cache

\* m_paramValues[id] = value
CacheWrite(cache, id, value) ==
    [j \in (DOMAIN cache) \cup {id} |-> IF j = id THEN value ELSE cache[j]]

\* setParam: handleRequests returned, the cache takes the value.
WriteDone ==
    /\ pc = "write"
    /\ AllFinished(m_numRequestsFinished, m_batchRequests)
    /\ m_paramValues' = CacheWrite(m_paramValues, op.id, op.value)
    /\ pc' = "done"
    /\ UNCHANGED <<m_batchRequests, m_numRequestsFinished, ackWrites, callVars, offered,
                   connVars, sideVars, m_logTocEntries, m_paramTocEntries, op, raised, submitted>>

InitToc ==
    /\ m_batchRequests = <<>>
    /\ m_numRequestsFinished = 0
    /\ pc = "idle"
    /\ ackWrites = <<>>
    /\ CallVarsInit
    /\ offered = EmptyBag
    /\ OtherInit

NextToc ==
    \/ \E which \in {"log", "param"} : RequestToc(which)
    \/ \E a \in TocAcks : DeviceAnswer(a)
    \/ BatchTimeout
    \/ InfoDone
    \/ ItemsDone
    \/ \E id \in ParamIds, v \in Values : SetParam(id, v)
    \/ WriteDone

SpecToc == InitToc /\ [][NextToc]_vars

\* Parameter writes on a connection whose parameter TOC discovery has run:
\* entry i has id i, a type byte and a readonly bit as the device reported
\* them, and the cache holds the value read for every entry.
TocTypes == ParamTypes \cup {4}

DiscoveredParamTocs ==
    UNION {[1..n -> [type : TocTypes, readonly : BOOLEAN]] : n \in 0..MaxToc}

InitParam ==
    /\ m_batchRequests = <<>>
    /\ m_numRequestsFinished = 0
    /\ pc = "idle"
    /\ ackWrites = <<>>
    /\ CallVarsInit
    /\ offered = EmptyBag
    /\ ConnInit
    /\ SideInit
    /\ m_logTocEntries = <<>>
    /\ \E toc \in DiscoveredParamTocs :
          /\ m_paramTocEntries =
                [k \in 1..Len(toc) |->
                    [id |-> k - 1, type |-> toc[k].type, readonly |-> toc[k].readonly,
                     group |-> "ring", name |-> "effect"]]
          /\ m_paramValues = [id \in 0..(Len(toc) - 1) |-> 7]
    /\ op = NoOp
    /\ raised = ""
    /\ submitted = <<>>

NextParam ==
    \/ \E id \in ParamIds, v \in Values : SetParam(id, v)
    \/ \E a \in TocAcks : DeviceAnswer(a)
    \/ BatchTimeout
    \/ WriteDone

SpecParam == InitParam /\ [][NextParam]_vars

\* ------------------------------------------------ log block registry calls

Callbacks == {"cb"}

\* The ids unregisterLogBlock is called with (sampled).
UnregisterIds == {0, 1, 2}

\* What a function that flows off its end without a return statement may hand
\* back as its uint8_t.
Garbage == 0..255

\* Variant of FirstFree: the number of registered blocks is taken as the id.
FirstFree_Size(registry, id) == Cardinality(DOMAIN registry)

\* registerLogBlock: the id at which the loop started at id stops, which is
\* the first one in id..NumLogBlockIds-1 that find() does not find;
\* NumLogBlockIds when the loop runs out.
FirstFree(registry, id) ==
    LET stops == {j \in id..(NumLogBlockIds - 1) : j \notin DOMAIN registry}
    IN  IF stops = {} THEN NumLogBlockIds
        ELSE CHOOSE j \in stops : \A k \in stops : j <= k

\* The call just made, as the next call's record keeps it.
PrevCall == [name |-> logCall.name, arg |-> logCall.arg, found |-> logCall.found]

\* m_logBlockCb[id] = cb
Register(registry, id, cb) ==
    [j \in (DOMAIN registry) \cup {id} |-> IF j = id THEN cb ELSE registry[j]]

\* Variant of Erase: the entry stays.
Erase_Nothing(registry, id) == registry

\* m_logBlockCb.erase(iterator to id)
Erase(registry, id) == [j \in (DOMAIN registry) \ {id} |-> registry[j]]

\* registerLogBlock(cb).  With every id taken the loop ends and the function
\* flows off its end: nothing is registered and the value handed back is
\* whatever the return register holds.
RegisterLogBlock(cb) ==
    /\ LET id == FirstFree(m_logBlockCb, 0)
       IN  IF id < NumLogBlockIds
           THEN /\ m_logBlockCb' = Register(m_logBlockCb, id, cb)
                /\ logCall' = [name |-> "register", arg |-> 0, ret |-> id,
                               returned |-> TRUE, threw |-> FALSE,
                               found |-> FALSE, prev |-> PrevCall]
           ELSE /\ m_logBlockCb' = m_logBlockCb
                /\ \E g \in Garbage :
                      logCall' = [name |-> "register", arg |-> 0, ret |-> g,
                                  returned |-> FALSE, threw |-> FALSE,
                                  found |-> FALSE, prev |-> PrevCall]
    /\ UNCHANGED <<nonLogVars, pushed>>

\* unregisterLogBlock(id).  For an id that is not registered find() gives
\* end() and erase(end()) is undefined: the registry is left as it was or
\* loses an entry.  The function has no return statement: the bool handed
\* back is never a value of the program.
UnregisterLogBlock(id) ==
    /\ IF id \in DOMAIN m_logBlockCb
       THEN m_logBlockCb' = Erase(m_logBlockCb, id)
       ELSE \/ m_logBlockCb' = m_logBlockCb
            \/ \E j \in (DOMAIN m_logBlockCb) \cap UnregisterIds :
                  m_logBlockCb' = Erase(m_logBlockCb, j)
    /\ logCall' = [name |-> "unregister", arg |-> id, ret |-> 0,
                   returned |-> FALSE, threw |-> FALSE,
                   found |-> id \in DOMAIN m_logBlockCb, prev |-> PrevCall]
    /\ UNCHANGED <<nonLogVars, pushed>>

InitLog ==
    /\ m_batchRequests = <<>>
    /\ m_numRequestsFinished = 0
    /\ pc = "idle"
    /\ ackWrites = <<>>
    /\ CallVarsInit
    /\ offered = EmptyBag
    /\ OtherInit

NextLog ==
    \/ \E cb \in Callbacks : RegisterLogBlock(cb)
    \/ \E id \in UnregisterIds : UnregisterLogBlock(id)

SpecLog == InitLog /\ [][NextLog]_vars

\* ------------------------------------------------ construction from a URI

\* A link URI after its scheme: the pieces between the separators, each a
\* number, a single character (its code) or text that is neither.
Num(v) == [kind |-> "num", v |-> v]
Chr(v) == [kind |-> "chr", v |-> v]
Junk == [kind |-> "junk", v |-> 0]

\* Link URIs handed to the constructors (sampled); 75, 77 and 88 are the
\* characters K, M and X.
Uris ==
    {[scheme |-> "radio", items |-> <<Num(0), Num(1), Num(250), Chr(75)>>],
     [scheme |-> "radio", items |-> <<Num(0), Num(0), Num(1), Chr(77), Num(1)>>],
     [scheme |-> "radio", items |-> <<Num(16), Num(1), Num(250), Chr(75)>>],
     [scheme |-> "radio", items |-> <<Num(-1), Num(1), Num(250), Chr(75)>>],
     [scheme |-> "radio", items |-> <<Num(0), Num(1), Num(3), Chr(88)>>],
     [scheme |-> "radio", items |-> <<Num(0), Num(1), Num(250)>>],
     [scheme |-> "radio", items |-> <<Num(2), Junk>>],
     [scheme |-> "usb", items |-> <<Num(0)>>],
     [scheme |-> "usb", items |-> <<Num(4)>>],
     [scheme |-> "usb", items |-> <<Num(-1)>>],
     [scheme |-> "foo", items |-> <<>>]}

\* One conversion of sscanf: %d and %lx take a number, %c any character.
Converts(item, spec) ==
    IF spec = "c" THEN item.kind \in {"chr", "junk"} ELSE item.kind = "num"

\* std::sscanf(link_uri.c_str(), "<scheme>://<format>", ...): the number of
\* conversions made; they are made in order and stop at the first that fails.
Sscanf(uri, scheme, format) ==
    IF uri.scheme # scheme THEN 0
    ELSE LET done == {n \in 0..Len(format) :
                        /\ n <= Len(uri.items)
                        /\ \A k \in 1..n : Converts(uri.items[k], format[k])}
         IN  CHOOSE n \in done : \A m \in done : m <= n

\* The two radio formats and the usb format of the constructors.
RadioFormat5 == <<"d", "d", "d", "c", "lx">>
RadioFormat4 == <<"d", "d", "d", "c">>
UsbFormat == <<"d">>

\* success after the two radio sscanf calls.
RadioSuccess(uri) ==
    Sscanf(uri, "radio", RadioFormat5) = 5 \/ Sscanf(uri, "radio", RadioFormat4) = 4

\* m_devId after the sscanf calls of a constructor: a conversion that was
\* made has stored its value even when the call as a whole fell short.
DevIdAfter(kind, uri) ==
    IF Sscanf(uri, "radio", RadioFormat4) >= 1 THEN uri.items[1].v
    ELSE IF kind = "Crazyflie" /\ Sscanf(uri, "usb", UsbFormat) = 1 THEN uri.items[1].v
    ELSE 0

\* m_datarate after the if / else if chain on datarate and datarateType; the
\* initialiser's Datarate_250KPS (0) stays when no branch is taken.
DatarateOf(uri) ==
    LET datarate == uri.items[3].v
        datarateType == uri.items[4].v
    IN  IF datarate = 250 /\ datarateType = 75 THEN 0
        ELSE IF datarate = 1 /\ datarateType = 77 THEN 1
        ELSE IF datarate = 2 /\ datarateType = 77 THEN 2
        ELSE 0

\* m_address: the fifth conversion, or the default set after the first
\* sscanf fell short.
AddressOf(uri) ==
    IF Sscanf(uri, "radio", RadioFormat5) = 5 THEN uri.items[5].v ELSE DefaultAddress

\* if (m_devId >= MAX_RADIOS) / if (m_devId >= MAX_USB)
RangeError(devId, max) == devId >= max

\* What a constructor that indexes the global arrays with a negative m_devId
\* may end in.
UndefinedOutcomes == {"crashed", "thrown", "constructed"}

\* The ways a constructor call with this URI can end: how, the message of
\* the exception, and the link the object got.
CtorOutcomes(kind, uri) ==
    LET devId == DevIdAfter(kind, uri)
    IN  IF RadioSuccess(uri)
        THEN IF RangeError(devId, MAX_RADIOS)
             THEN {[outcome |-> "thrown", what |-> "radios", link |-> "none"]}
             ELSE IF devId < 0
             THEN {[outcome |-> o, what |-> "", link |-> "undefined"] :
                     o \in UndefinedOutcomes}
             ELSE {[outcome |-> "constructed", what |-> "", link |-> "radio"]}
        ELSE IF kind = "CrazyflieBroadcaster"
        THEN {[outcome |-> "thrown", what |-> "Uri is not valid!", link |-> "none"]}
        ELSE IF RangeError(devId, MAX_USB)
        THEN {[outcome |-> "thrown", what |-> "usb", link |-> "none"]}
        ELSE IF devId < 0
        THEN {[outcome |-> o, what |-> "", link |-> "undefined"] : o \in UndefinedOutcomes}
        ELSE IF Sscanf(uri, "usb", UsbFormat) = 1
        THEN {[outcome |-> "constructed", what |-> "", link |-> "usb"]}
        ELSE {[outcome |-> "thrown", what |-> "Uri is not valid!", link |-> "usb"]}

\* A constructor call Crazyflie(link_uri) / CrazyflieBroadcaster(link_uri) from
\* its first statement to its return or exception, no other thread running.
ConstructFromUri(c, kind, uri) ==
    /\ conn[c].at = "new"
    /\ \E o \in CtorOutcomes(kind, uri) :
          LET devId == DevIdAfter(kind, uri)
          IN  /\ ctor' = [by |-> c, kind |-> kind, uri |-> uri, outcome |-> o.outcome,
                          what |-> o.what, m_devId |-> devId]
              /\ g_crazyflieUSB' =
                    IF o.link = "usb" THEN g_crazyflieUSB \cup {devId} ELSE g_crazyflieUSB
              /\ IF o.link = "radio"
                 THEN /\ devId \in DevIds
                      /\ IF g_crazyradios[devId] = 0
                         THEN /\ \E r \in FreshRadios :
                                    radios' = Append(radios,
                                        [devId |-> devId, address |-> r.address,
                                         channel |-> r.channel, datarate |-> r.datarate,
                                         ackEnable |-> TRUE, arc |-> 0])
                              /\ g_crazyradios' =
                                    [g_crazyradios EXCEPT ![devId] = Len(radios) + 1]
                         ELSE UNCHANGED <<g_crazyradios, radios>>
                      /\ conn' = [conn EXCEPT ![c] =
                             [kind |-> kind, at |-> "ready", m_devId |-> devId,
                              m_address |-> AddressOf(uri), m_channel |-> uri.items[2].v,
                              m_datarate |-> DatarateOf(uri),
                              m_radio |-> g_crazyradios'[devId]]]
                 ELSE UNCHANGED <<g_crazyradios, radios, conn>>
    /\ UNCHANGED <<batchVars, tocVars, nonUriSide, g_radioMutex, onAir>>

InitUri ==
    /\ m_batchRequests = <<>>
    /\ m_numRequestsFinished = 0
    /\ pc = "idle"
    /\ ackWrites = <<>>
    /\ CallVarsInit
    /\ offered = EmptyBag
    /\ OtherInit

NextUri ==
    \E c \in Conns, kind \in Kinds, uri \in Uris : ConstructFromUri(c, kind, uri)

SpecUri == InitUri /\ [][NextUri]_vars

\* ------------------------------------------------ link quality sampling

\* Variant of CountersAfter: numAcks is not reset.
CountersAfter_KeepAcks(n, a) ==
    IF n = NumWindow THEN [numPackets |-> 0, numAcks |-> a]
    ELSE [numPackets |-> n, numAcks |-> a]

\* sendPacket: the statics when the call returns, n and a being their values
\* at the test if (numPackets == 100).
CountersAfter(n, a) ==
    IF n = NumWindow THEN [numPackets |-> 0, numAcks |-> 0]
    ELSE [numPackets |-> n, numAcks |-> a]

\* float linkQuality = numAcks / (float)numPackets, kept as the two counts.
LinkQuality(a, n) == [acks |-> a, attempts |-> n]

\* sendPacket(data, length, ack) of object c, the transport returning ack.ack
\* = acked: the counting part of the call.
LinkSend(c, acked) ==
    /\ sent < MaxSent
    /\ LET n == numPackets + 1
           a == IF acked THEN numAcks + 1 ELSE numAcks
       IN  /\ numPackets' = CountersAfter(n, a).numPackets
           /\ numAcks' = CountersAfter(n, a).numAcks
           /\ lastSend' =
                  [by |-> c, acked |-> acked,
                   samples |-> IF n = NumWindow /\ m_linkQualityCallback[c]
                               THEN <<LinkQuality(a, n)>>
                               ELSE <<>>]
    /\ sent' = sent + 1
    /\ UNCHANGED <<nonLinkVars, m_linkQualityCallback>>

\* setLinkQualityCallback(cb) of object c.
SetLinkQualityCallback(c) ==
    /\ m_linkQualityCallback' = [m_linkQualityCallback EXCEPT ![c] = TRUE]
    /\ UNCHANGED <<nonLinkVars, numPackets, numAcks, sent, lastSend>>

InitLink ==
    /\ m_batchRequests = <<>>
    /\ m_numRequestsFinished = 0
    /\ pc = "idle"
    /\ ackWrites = <<>>
    /\ CallVarsInit
    /\ offered = EmptyBag
    /\ OtherInit

NextLink ==
    \/ \E c \in LinkConns, acked \in BOOLEAN : LinkSend(c, acked)
    \/ \E c \in LinkConns : SetLinkQualityCallback(c)

SpecLink == InitLink /\ [][NextLink]_vars

\* ------------------------------------------------ reboot

reboot_init == <<255, 254, 255>>
reboot_to_firmware == <<255, 254, 240, 1>>
reboot_to_bootloader == <<255, 254, 240, 0>>

RebootOps == {"reboot", "rebootToBootloader"}

\* The packet the while loop at this statement hands to sendPacket.
RebootPacket(which, stmt) ==
    IF stmt = "init" THEN reboot_init
    ELSE IF which = "reboot" THEN reboot_to_firmware
    ELSE reboot_to_bootloader

\* Variant of RebootAfter: the loops do not test what sendPacket returned.
RebootAfter_NoWait(stmt, acked) ==
    IF stmt = "init" THEN "second" ELSE "returned"

\* while(!sendPacket(...)) {}: the statement after one call that returned acked.
RebootAfter(stmt, acked) ==
    IF ~acked THEN stmt
    ELSE IF stmt = "init" THEN "second"
    ELSE "returned"

\* reboot() / rebootToBootloader() is entered.
RebootCall(which) ==
    /\ rebootAt.at \in {"idle", "returned"}
    /\ rebootAt' = [op |-> which, at |-> "init"]
    /\ rebootTx' = NoRebootTx
    /\ UNCHANGED <<batchVars, connVars, tocVars, nonRebootSide, linkVars>>

\* One turn of the loop the call stands in: sendPacket(data, length) of object
\* c, which counts the packet as every sendPacket does and returns ack.ack =
\* acked.  No batch is pending and no log block is registered, so handleAck
\* finds nothing to update.
RebootSend(c, acked) ==
    /\ rebootAt.at \in {"init", "second"}
    /\ pc = "idle"
    /\ LET n == numPackets + 1
           a == IF acked THEN numAcks + 1 ELSE numAcks
           data == RebootPacket(rebootAt.op, rebootAt.at)
       IN  /\ numPackets' = CountersAfter(n, a).numPackets
           /\ numAcks' = CountersAfter(n, a).numAcks
           /\ lastSend' =
                  [by |-> c, acked |-> acked,
                   samples |-> IF n = NumWindow /\ m_linkQualityCallback[c]
                               THEN <<LinkQuality(a, n)>>
                               ELSE <<>>]
           /\ rebootTx' =
                  [initAcked |-> rebootTx.initAcked \/ (data = reboot_init /\ acked),
                   secondSent |-> rebootTx.secondSent \/ data # reboot_init,
                   secondAcked |-> rebootTx.secondAcked \/ (data # reboot_init /\ acked),
                   second |-> IF data # reboot_init THEN data ELSE rebootTx.second,
                   early |-> rebootTx.early \/ (data # reboot_init /\ ~rebootTx.initAcked)]
    /\ rebootAt' = [rebootAt EXCEPT !.at = RebootAfter(rebootAt.at, acked)]
    /\ UNCHANGED <<batchVars, connVars, tocVars, nonRebootSide, m_linkQualityCallback, sent>>

\* The thread inside reboot() keeps running.
RebootRuns == \E acked \in BOOLEAN : RebootSend(1, acked)

InitReboot ==
    /\ m_batchRequests = <<>>
    /\ m_numRequestsFinished = 0
    /\ pc = "idle"
    /\ ackWrites = <<>>
    /\ CallVarsInit
    /\ offered = EmptyBag
    /\ OtherInit

NextReboot ==
    \/ \E which \in RebootOps : RebootCall(which)
    \/ \E acked \in BOOLEAN : RebootSend(1, acked)

SpecReboot == InitReboot /\ [][NextReboot]_vars /\ WF_vars(RebootRuns)

\* ------------------------------------------------ external position broadcast

\* The longest argument of sendPositionExternal that is explored.
MaxStates == 6

\* single2half: the value rounded to the nearest one the shorter format
\* holds (here: the even numbers).
single2half(v) == 2 * ((v + 1) \div 2)

\* stateExternal values handed in (sampled); id 0 is a vehicle id as any other.
StateExternals ==
    {[id |-> 0, x |-> 1, y |-> 2, z |-> 3, yaw |-> 4],
     [id |-> 2, x |-> 9, y |-> 10, z |-> 11, yaw |-> 12]}

PosInputs == UNION {[1..n -> StateExternals] : n \in 0..MaxStates}

\* What the members of a crtpPosExt hold before they are first assigned.
Indeterminate == {0, 255}

\* crtpPosExt request; request.position[0..2].id = 0;
crtpPosExt(fresh) ==
    [k \in 1..3 |-> [id |-> 0, x |-> fresh, y |-> fresh, z |-> fresh, yaw |-> fresh]]

\* The three assignments request.position[..].id = 0.
ClearIds(request) == [k \in 1..3 |-> [request[k] EXCEPT !.id = 0]]

\* The five assignments to request.position[i%3] (the model's slots are
\* 1-based).
StoreState(request, i, st) ==
    [request EXCEPT ![(i % 3) + 1] =
        [id |-> st.id, x |-> single2half(st.x), y |-> single2half(st.y),
         z |-> single2half(st.z), yaw |-> single2half(st.yaw)]]

\* Variant of SendsAfter: a packet that is not full is not sent.
SendsAfter_FullOnly(i, n) == i % 3 = 2

\* if (i%3 == 2 || i == data.size() - 1)
SendsAfter(i, n) == i % 3 = 2 \/ i = n - 1

\* The for loop from index i on: the packets handed to sendPacket, in order.
RECURSIVE PosLoop(_, _, _, _)
PosLoop(data, i, request, packets) ==
    IF i >= Len(data) THEN packets
    ELSE LET stored == StoreState(request, i, data[i + 1])
         IN  IF SendsAfter(i, Len(data))
             THEN PosLoop(data, i + 1, ClearIds(stored), Append(packets, stored))
             ELSE PosLoop(data, i + 1, stored, packets)

\* CrazyflieBroadcaster::sendPositionExternal(data) of broadcaster c, each of
\* its sendPacket calls configuring the radio and transmitting without ack.
SendPositionExternal(c, data, fresh) ==
    /\ conn[c].kind = "CrazyflieBroadcaster"
    /\ conn[c].at = "ready"
    /\ LET packets == PosLoop(data, 0, crtpPosExt(fresh), <<>>)
           configured == [radios[conn[c].m_radio] EXCEPT
                             !.address = conn[c].m_address,
                             !.channel = conn[c].m_channel,
                             !.datarate = conn[c].m_datarate,
                             !.ackEnable = AckMode(conn[c].kind)]
       IN  /\ posCall' = [by |-> c, data |-> data, packets |-> packets]
           /\ IF packets = <<>>
              THEN UNCHANGED <<radios, onAir>>
              ELSE /\ radios' = [radios EXCEPT ![conn[c].m_radio] = configured]
                   /\ onAir' = [by |-> c, radio |-> conn[c].m_radio,
                                address |-> configured.address,
                                channel |-> configured.channel,
                                datarate |-> configured.datarate,
                                ackEnable |-> configured.ackEnable]
    /\ UNCHANGED <<batchVars, tocVars, nonPosSide, g_crazyradios, g_radioMutex, conn>>

\* The link URIs of the broadcasters that are constructed.
PosUris == {uri \in Uris : uri.scheme = "radio" /\ uri.items[1].v \in DevIds}

InitPos ==
    /\ m_batchRequests = <<>>
    /\ m_numRequestsFinished = 0
    /\ pc = "idle"
    /\ ackWrites = <<>>
    /\ CallVarsInit
    /\ offered = EmptyBag
    /\ OtherInit

NextPos ==
    \/ \E uri \in PosUris : ConstructFromUri(1, "CrazyflieBroadcaster", uri)
    \/ \E data \in PosInputs, fresh \in Indeterminate : SendPositionExternal(1, data, fresh)

SpecPos == InitPos /\ [][NextPos]_vars

\* ------------------------------------------------ joystick manager

\* The buttons vectors of the Joy messages (sampled): a pad with fewer than
\* COUNT buttons, and every pressing of the six buttons read with the two
\* others up.
JoyButtons ==
    {<<>>} \cup {b \in [1..COUNT -> {0, 1}] :
                    \A k \in 1..COUNT : (k - 1) \notin {Green, Red, Blue, Yellow, Back, Start}
                                            => b[k] = 0}

\* The six if statements of joyChanged in program order: the action called,
\* the button read from the message and the button read from lastButtonState.
JoyTests ==
    <<[action |-> "emergency", now |-> Red, last |-> Red],
      [action |-> "takeoff", now |-> Start, last |-> Start],
      [action |-> "land", now |-> Back, last |-> Back],
      [action |-> "startTrajectory", now |-> Yellow, last |-> Yellow],
      [action |-> "uploadTrajectory", now |-> Blue, last |-> Blue],
      [action |-> "ellipse", now |-> Green, last |-> Blue]>>

\* msg->buttons[now] == 1 && lastButtonState[last] == 0 (the model's vectors
\* are 1-based).
JoyFires(t, buttons, last) == buttons[t.now + 1] = 1 /\ last[t.last + 1] = 0

\* The actions one joyChanged call invokes, in order.
JoyInvoked(buttons, last) ==
    IF Len(buttons) >= COUNT /\ Len(last) >= COUNT
    THEN LET fired == SelectSeq(JoyTests, LAMBDA t : JoyFires(t, buttons, last))
         IN  [k \in 1..Len(fired) |-> fired[k].action]
    ELSE <<>>

\* Manager::joyChanged(msg)
JoyChanged(buttons) ==
    /\ joyCall' = [handled |-> TRUE, buttons |-> buttons, prev |-> lastButtonState,
                   invoked |-> JoyInvoked(buttons, lastButtonState)]
    /\ lastButtonState' = buttons
    /\ UNCHANGED nonJoyVars

InitJoy ==
    /\ m_batchRequests = <<>>
    /\ m_numRequestsFinished = 0
    /\ pc = "idle"
    /\ ackWrites = <<>>
    /\ CallVarsInit
    /\ offered = EmptyBag
    /\ OtherInit

NextJoy == \E buttons \in JoyButtons : JoyChanged(buttons)

SpecJoy == InitJoy /\ [][NextJoy]_vars

\* ------------------------------------------------ trajectory upload

crtpTrajectoryResetRequest == <<Crtp(14, 1), 0>>

\* The add request: command, segment id, offset, size and the six floats.
crtpTrajectoryAddRequest(id, offset, size, values) ==
    <<Crtp(14, 1), 1, id, offset, size, values>>

\* Arguments of trajectoryAdd (sampled): every one of the 33 values differs.
Trajectories ==
    {[duration |-> b, poly_x |-> [k \in 1..8 |-> b + k],
      poly_y |-> [k \in 1..8 |-> b + 8 + k], poly_z |-> [k \in 1..8 |-> b + 16 + k],
      poly_yaw |-> [k \in 1..8 |-> b + 24 + k]] : b \in {100}}

\* Variant of TrajectoryFragments: part 3 starts one coefficient early.
TrajectoryFragments_Shifted(id, t) ==
    LET x == t.poly_x
        y == t.poly_y
        z == t.poly_z
        yaw == t.poly_yaw
    IN  <<crtpTrajectoryAddRequest(id, 0, 6, <<t.duration, x[1], x[2], x[3], x[4], x[5]>>),
          crtpTrajectoryAddRequest(id, 6, 6, <<x[6], x[7], x[8], y[1], y[2], y[3]>>),
          crtpTrajectoryAddRequest(id, 12, 6, <<y[3], y[4], y[5], y[6], y[7], z[1]>>),
          crtpTrajectoryAddRequest(id, 18, 6, <<z[2], z[3], z[4], z[5], z[6], z[7]>>),
          crtpTrajectoryAddRequest(id, 24, 6, <<z[8], yaw[1], yaw[2], yaw[3], yaw[4], yaw[5]>>),
          crtpTrajectoryAddRequest(id, 30, 3, <<yaw[6], yaw[7], yaw[8], yaw[3], yaw[4], yaw[5]>>)>>

\* trajectoryAdd: the request as it stands at each of the six addRequest
\* calls (sequences are 1-based: x[1] is poly_x[0]).  The one request object
\* is refilled from part to part, so part 6 still carries values[3..5] of
\* part 5 behind its three values.
TrajectoryFragments(id, t) ==
    LET x == t.poly_x
        y == t.poly_y
        z == t.poly_z
        yaw == t.poly_yaw
    IN  <<crtpTrajectoryAddRequest(id, 0, 6, <<t.duration, x[1], x[2], x[3], x[4], x[5]>>),
          crtpTrajectoryAddRequest(id, 6, 6, <<x[6], x[7], x[8], y[1], y[2], y[3]>>),
          crtpTrajectoryAddRequest(id, 12, 6, <<y[4], y[5], y[6], y[7], y[8], z[1]>>),
          crtpTrajectoryAddRequest(id, 18, 6, <<z[2], z[3], z[4], z[5], z[6], z[7]>>),
          crtpTrajectoryAddRequest(id, 24, 6, <<z[8], yaw[1], yaw[2], yaw[3], yaw[4], yaw[5]>>),
          crtpTrajectoryAddRequest(id, 30, 3, <<yaw[6], yaw[7], yaw[8], yaw[3], yaw[4], yaw[5]>>)>>

\* Variant of TrajectoryBatch: the offset byte is not part of the match key.
TrajectoryBatch_MatchTwo(id, t) ==
    LET parts == TrajectoryFragments(id, t)
    IN  [k \in 1..Len(parts) |-> BatchEntry(parts[k], 2)]

\* trajectoryAdd: the batch its addRequest(request, 3) calls build.
TrajectoryBatch(id, t) ==
    LET parts == TrajectoryFragments(id, t)
    IN  [k \in 1..Len(parts) |-> BatchEntry(parts[k], 3)]

\* The answers of the device to trajectory requests (sampled): the reset
\* answer and the add answers, echoing command, id and offset.
TrajAcks ==
    {Response(<<Crtp(14, 1), 0, 0, 0>>)}
    \cup {Response(<<Crtp(14, 1), 1, id, offset>>) :
            id \in 0..MaxSegments, offset \in {0, 6, 12, 18, 24, 30}}

\* trajectoryAdd up to its handleRequests call.
TrajectoryAdd(t) ==
    /\ Idle
    /\ m_lastTrajectoryId < MaxSegments
    /\ LET batch == TrajectoryBatch(m_lastTrajectoryId, t)
       IN  /\ m_batchRequests' = batch
           /\ ackWrites' = [k \in 1..Len(batch) |-> 0]
           /\ submitted' = [k \in 1..Len(batch) |-> batch[k].request]
    /\ m_numRequestsFinished' = 0
    /\ pc' = "traj"
    /\ op' = [NoOp EXCEPT !.name = "trajectoryAdd"]
    /\ raised' = ""
    /\ trajInput' = t
    /\ finishOrder' = <<>>
    /\ UNCHANGED <<callVars, offered, connVars, nonTrajSide, m_logTocEntries, m_paramTocEntries,
                   m_paramValues, m_lastTrajectoryId, addsSinceReset>>

\* trajectoryReset up to its handleRequests call.
TrajectoryReset ==
    /\ Idle
    /\ m_batchRequests' = <<BatchEntry(crtpTrajectoryResetRequest, 1)>>
    /\ ackWrites' = <<0>>
    /\ submitted' = <<crtpTrajectoryResetRequest>>
    /\ m_numRequestsFinished' = 0
    /\ pc' = "traj"
    /\ op' = [NoOp EXCEPT !.name = "trajectoryReset"]
    /\ raised' = ""
    /\ finishOrder' = <<>>
    /\ UNCHANGED <<callVars, offered, connVars, nonTrajSide, m_logTocEntries, m_paramTocEntries,
                   m_paramValues, m_lastTrajectoryId, addsSinceReset, trajInput>>

\* handleRequests under way: the ack of a transmission reaches handleBatchAck.
TrajAnswer(a) ==
    /\ pc = "traj"
    /\ LET r == HandleBatchAck(m_batchRequests, m_numRequestsFinished, ackWrites, a)
       IN  /\ m_batchRequests' = r.reqs
           /\ m_numRequestsFinished' = r.n
           /\ ackWrites' = r.writes
    /\ finishOrder' =
          IF m_numRequestsFinished' = m_numRequestsFinished THEN finishOrder
          ELSE Append(finishOrder,
                      CHOOSE k \in 1..Len(m_batchRequests) :
                          m_batchRequests'[k].finished /\ ~m_batchRequests[k].finished)
    /\ UNCHANGED <<pc, callVars, offered, connVars, tocVars, nonTrajSide, m_lastTrajectoryId,
                   addsSinceReset, trajInput>>

\* handleRequests throws at its deadline; the exception leaves the operation.
TrajTimeout ==
    /\ pc = "traj"
    /\ pc' = "thrown"
    /\ raised' = "timeout"
    /\ finishOrder' = <<>>
    /\ UNCHANGED <<m_batchRequests, m_numRequestsFinished, ackWrites, callVars, offered,
                   connVars, nonTrajSide, m_logTocEntries, m_paramTocEntries, m_paramValues, op,
                   submitted, m_lastTrajectoryId, addsSinceReset, trajInput>>

\* Variant of TrajectoryAddDone: the id stays.
TrajectoryAddDone_NoIncrement ==
    /\ pc = "traj"
    /\ op.name = "trajectoryAdd"
    /\ AllFinished(m_numRequestsFinished, m_batchRequests)
    /\ addsSinceReset' = addsSinceReset + 1
    /\ pc' = "done"
    /\ finishOrder' = <<>>
    /\ UNCHANGED <<m_batchRequests, m_numRequestsFinished, ackWrites, callVars, offered,
                   connVars, tocVars, nonTrajSide, trajInput, m_lastTrajectoryId>>

\* trajectoryAdd: handleRequests returned, ++m_lastTrajectoryId.
TrajectoryAddDone ==
    /\ pc = "traj"
    /\ op.name = "trajectoryAdd"
    /\ AllFinished(m_numRequestsFinished, m_batchRequests)
    /\ m_lastTrajectoryId' = m_lastTrajectoryId + 1
    /\ addsSinceReset' = addsSinceReset + 1
    /\ pc' = "done"
    /\ finishOrder' = <<>>
    /\ UNCHANGED <<m_batchRequests, m_numRequestsFinished, ackWrites, callVars, offered,
                   connVars, tocVars, nonTrajSide, trajInput>>

\* trajectoryReset: handleRequests returned, m_lastTrajectoryId = 0.
TrajectoryResetDone ==
    /\ pc = "traj"
    /\ op.name = "trajectoryReset"
    /\ AllFinished(m_numRequestsFinished, m_batchRequests)
    /\ m_lastTrajectoryId' = 0
    /\ addsSinceReset' = 0
    /\ pc' = "done"
    /\ finishOrder' = <<>>
    /\ UNCHANGED <<m_batchRequests, m_numRequestsFinished, ackWrites, callVars, offered,
                   connVars, tocVars, nonTrajSide, trajInput>>

\* ------------------------------------------------ log-data frames

\* crtpLogDataResponse: the frame the device pushes for a log block.
crtpLogDataResponse(blockId, payload) == <<Crtp(5, 2), blockId, payload>>

\* crtpLogDataResponse::match(result)
crtpLogDataResponseMatch(result) ==
    Len(result.data) >= 2 /\ CrtpEq(result.data[1], Crtp(5, 2))

\* Block ids of the frames the device pushes (sampled).
PushBlockIds == {0, 1, 2}

PushAcks == {Response(crtpLogDataResponse(b, 7)) : b \in PushBlockIds}

\* The answers to the requests of requestLogToc.
LogTocAcks ==
    {Response(<<Crtp(5, 0), 1, n>>) : n \in 0..MaxToc}
    \cup {Response(<<Crtp(5, 0), 0, i, item>>) : i \in TocIndices, item \in LogItems}

\* Registries the frames meet (sampled).
PushRegistries == {[i \in S |-> "cb"] : S \in SUBSET PushBlockIds}

\* Variant of HandleAck: the callback is invoked without looking at find().
HandleAck_NoFind(registry, result) ==
    IF crtpLogDataResponseMatch(result)
    THEN [invoked |-> 1, dropped |-> 0]
    ELSE [invoked |-> 0, dropped |-> 0]

\* handleAck(result), the log-data branch: the callback invocations and the
\* "Received unrequested data" lines of one call.  The branches of the other
\* frames touch neither the registry nor the batch.
HandleAck(registry, result) ==
    IF crtpLogDataResponseMatch(result)
    THEN IF result.data[2] \in DOMAIN registry
         THEN [invoked |-> 1, dropped |-> 0]
         ELSE [invoked |-> 0, dropped |-> 1]
    ELSE [invoked |-> 0, dropped |-> 0]

\* handleRequests under way: a transmission comes back with ack a.  sendPacket
\* hands it to handleAck, then handleRequests hands it to handleBatchAck, which
\* hands it to handleAck once more when no entry matches.
FrameArrives(a) ==
    /\ pc \in {"info", "items"}
    /\ LET r == HandleBatchAck(m_batchRequests, m_numRequestsFinished, ackWrites, a)
           calls == SendPacketHandleAck(a) + r.generic
           h == HandleAck(m_logBlockCb, a)
       IN  /\ m_batchRequests' = r.reqs
           /\ m_numRequestsFinished' = r.n
           /\ ackWrites' = r.writes
           /\ pushed' = IF crtpLogDataResponseMatch(a)
                        THEN [frame |-> a.data, invoked |-> calls * h.invoked,
                              dropped |-> calls * h.dropped]
                        ELSE pushed
    /\ UNCHANGED <<pc, callVars, offered, connVars, tocVars, nonLogSide, m_logBlockCb,
                   logCall>>

InitPush ==
    /\ m_batchRequests = <<>>
    /\ m_numRequestsFinished = 0
    /\ pc = "idle"
    /\ ackWrites = <<>>
    /\ CallVarsInit
    /\ offered = EmptyBag
    /\ ConnInit
    /\ TocInit
    /\ TrajInit
    /\ LinkInit
    /\ UriInit
    /\ RebootInit
    /\ PosInit
    /\ JoyInit
    /\ m_logBlockCb \in PushRegistries
    /\ logCall = NoLogCall
    /\ pushed = NoPush

NextPush ==
    \/ RequestToc("log")
    \/ \E a \in LogTocAcks \cup PushAcks : FrameArrives(a)
    \/ BatchTimeout
    \/ InfoDone
    \/ ItemsDone
    \/ \E id \in UnregisterIds : UnregisterLogBlock(id)

SpecPush == InitPush /\ [][NextPush]_vars

\* Trajectory uploads, with log TOC discoveries in between.
InitTraj ==
    /\ m_batchRequests = <<>>
    /\ m_numRequestsFinished = 0
    /\ pc = "idle"
    /\ ackWrites = <<>>
    /\ CallVarsInit
    /\ offered = EmptyBag
    /\ OtherInit

NextTraj ==
    \/ \E t \in Trajectories : TrajectoryAdd(t)
    \/ TrajectoryReset
    \/ \E a \in TrajAcks : TrajAnswer(a)
    \/ TrajTimeout
    \/ TrajectoryAddDone
    \/ TrajectoryResetDone
    \/ RequestToc("log")
    \/ \E a \in LogTocAcks : DeviceAnswer(a)
    \/ BatchTimeout
    \/ InfoDone
    \/ ItemsDone

SpecTraj == InitTraj /\ [][NextTraj]_vars

\* ------------------------------------------------------------ properties

Entries == 1..Len(m_batchRequests)
FinishedSet == {i \in Entries : m_batchRequests[i].finished}
InCall == pc \in {"send", "ping", "done", "thrown"}

\* The ack's header equals the request's and its first numBytesToMatch
\* payload bytes equal the request's.
KeyEq(a, req) ==
    /\ a.ack
    /\ a.data[1] = req.request[1]
    /\ SubSeq(a.data, 2, 1 + req.numBytesToMatch)
         = SubSeq(req.request, 2, 1 + req.numBytesToMatch)

\* The entries an ack finds pending: unfinished, with its header and prefix.
Pending(a) ==
    {i \in Entries : ~m_batchRequests[i].finished /\ KeyEq(a, m_batchRequests[i])}

\* This step transmitted the packet of entry idx.
TxRequest == pc = "send" /\ passSent' = Append(passSent, idx)
\* This step transmitted a keep-alive probe.
TxProbe == pc = "ping" /\ (pc' = "thrown" \/ (pc' = "ping" /\ pingIdx' = pingIdx + 1))

\* C1: while every packet sent by a handleRequests call has been answered,
\* within the deadline, by an ack with the header and match prefix of the
\* entry sent, the call is in its first Sending pass or has returned normally:
\* it has made one transmission per entry passed, each entry passed is
\* finished, no probe was sent, no timeout was thrown, and on return all N
\* entries are finished; no entry's ack was written more than once.
C1_AllAckedCompletes ==
    (InCall /\ allMatched) =>
        /\ pc \in {"send", "done"}
        /\ what = ""
        /\ \A i \in Entries : ackWrites[i] <= 1
        /\ pc = "send" =>
              /\ passSent = [i \in 1..(idx - 1) |-> i]
              /\ FinishedSet = 1..(idx - 1)
              /\ m_numRequestsFinished = idx - 1
        /\ pc = "done" =>
              /\ FinishedSet = Entries
              /\ \A i \in Entries : ackWrites[i] = 1 /\ KeyEq(m_batchRequests[i].ack, m_batchRequests[i])

\* A batch of two entries with the same key, each answered by a matching ack,
\* has returned normally.
C1_Witness ==
    /\ pc = "done"
    /\ allMatched
    /\ Len(m_batchRequests) = 2
    /\ m_batchRequests[1].request = m_batchRequests[2].request

\* C2: an ack received by a transmission of handleRequests that finds no
\* pending entry finishes no entry, leaves the finished counter unchanged and
\* is passed to handleAck exactly once.
C2_UnmatchedAckOnce ==
    [][((TxRequest \/ TxProbe) /\ ack'.ack /\ Pending(ack') = {}) =>
            /\ m_batchRequests' = m_batchRequests
            /\ m_numRequestsFinished' = m_numRequestsFinished
            /\ numHandleAck' = 1]_vars

\* The transmission of the only entry of a batch came back with an ack that
\* matches no pending entry, and handleAck ran twice for it.
C2_Witness ==
    /\ pc = "send"
    /\ Len(m_batchRequests) = 1
    /\ passSent = <<1>>
    /\ ack.ack
    /\ ~m_batchRequests[1].finished
    /\ numHandleAck = 2

\* C3: an ack handed to the matcher finishes the first pending entry in
\* declaration order, which records that ack, and changes no other entry; with
\* no pending entry the batch is unchanged.
C3_FirstPendingMatch ==
    [][offered' # offered =>
          IF Pending(ack') = {}
          THEN /\ m_batchRequests' = m_batchRequests
               /\ m_numRequestsFinished' = m_numRequestsFinished
          ELSE LET e == CHOOSE i \in Pending(ack') : \A j \in Pending(ack') : i <= j
               IN  /\ m_batchRequests' =
                        [m_batchRequests EXCEPT ![e] = [@ EXCEPT !.finished = TRUE,
                                                                 !.ack = ack']]
                   /\ m_numRequestsFinished' = m_numRequestsFinished + 1]_vars

\* Two entries share header and prefix, and one ack was handed to the matcher:
\* the first entry recorded it, the second is still pending.
C3_Witness ==
    /\ pc = "matcher"
    /\ Len(m_batchRequests) = 2
    /\ m_batchRequests[1].request = m_batchRequests[2].request
    /\ m_batchRequests[1].numBytesToMatch = m_batchRequests[2].numBytesToMatch
    /\ BagCardinality(offered) = 1
    /\ m_batchRequests[1].finished /\ m_batchRequests[1].ack = ack
    /\ ~m_batchRequests[2].finished

\* The acks handed to the matcher so far are distinct and each has the header
\* and prefix of exactly one entry of the batch, no two of the same entry.
OneEntryPerAck ==
    /\ \A a \in BagToSet(offered) :
          /\ CopiesIn(a, offered) = 1
          /\ Cardinality({i \in Entries : KeyEq(a, m_batchRequests[i])}) = 1
    /\ \A a, b \in BagToSet(offered) :
          a # b => \A i \in Entries : ~(KeyEq(a, m_batchRequests[i]) /\ KeyEq(b, m_batchRequests[i]))

\* C4: when each ack has the header and prefix of exactly one entry, the
\* outcome depends on the acks handed to the matcher and not on their order:
\* an entry is finished exactly when its ack was among them, and it holds that
\* ack.
C4_OrderIndependent ==
    (pc = "matcher" /\ OneEntryPerAck) =>
        /\ \A i \in Entries :
              LET mine == {a \in BagToSet(offered) : KeyEq(a, m_batchRequests[i])}
              IN  /\ m_batchRequests[i].finished <=> mine # {}
                  /\ m_batchRequests[i].ack \in mine \cup {NoAck}
                  /\ m_batchRequests[i].finished => m_batchRequests[i].ack \in mine
        /\ m_numRequestsFinished = BagCardinality(offered)

\* Both entries of a batch were finished by their own acks, the second
\* entry's ack having been handed over first.
C4_Witness ==
    /\ pc = "matcher"
    /\ OneEntryPerAck
    /\ Len(m_batchRequests) = 2
    /\ BagCardinality(offered) = 2
    /\ ack = m_batchRequests[1].ack
    /\ m_batchRequests[2].finished

\* C5: throughout a handleRequests call the finished counter equals the number
\* of finished entries and is at most the batch size, every entry's ack was
\* written at most once, and a finished entry is never changed again.
C5_MatchedAtMostOnce ==
    /\ [](InCall =>
            /\ m_numRequestsFinished = Cardinality(FinishedSet)
            /\ m_numRequestsFinished <= Len(m_batchRequests)
            /\ \A i \in Entries :
                  /\ ackWrites[i] <= 1
                  /\ m_batchRequests[i].finished <=> ackWrites[i] = 1)
    /\ [][(InCall /\ InCall') =>
            \A i \in Entries :
                m_batchRequests[i].finished => m_batchRequests'[i] = m_batchRequests[i]]_vars

\* During a probe run an ack with the header and prefix of an entry that is
\* already finished came in and went to the generic handler.
C5_Witness ==
    /\ pc = "ping"
    /\ \E i \in Entries : m_batchRequests[i].finished /\ KeyEq(ack, m_batchRequests[i])
    /\ Pending(ack) = {}
    /\ numHandleAck > 0

\* baseTime + timePerRequest x (number of batch entries)
Deadline == baseTime + timePerRequest * Len(m_batchRequests)

\* C6: handleRequests fails with a timeout only at the check made after a
\* transmission at which the elapsed time is strictly greater than
\* baseTime + timePerRequest x (number of entries); while the elapsed time is
\* at most that deadline the call has not failed.
C6_TimeoutOnlyPastDeadline ==
    /\ [](pc = "thrown" => (what = "timeout" /\ elapsed > Deadline))
    /\ []((InCall /\ elapsed <= Deadline) => pc # "thrown")
    /\ [][(pc' = "thrown" /\ pc # "thrown") =>
            ((TxRequest \/ TxProbe) /\ elapsed' > Deadline /\ elapsed <= Deadline)]_vars

\* A call on two entries went through its Sending pass within the deadline
\* and failed at the check after a probe.
C6_Witness ==
    /\ pc = "thrown"
    /\ Len(m_batchRequests) = 2
    /\ lastTx = <<PingByte>>
    /\ elapsed = Deadline + 1

\* C7 as stated: the timeout failure names exactly the entries that are
\* still unfinished.
C7_ReportsUnfinished ==
    pc = "thrown" => NamedInFailure(what) = Entries \ FinishedSet

\* C7 amended: the timeout failure carries the message "timeout" and names no
\* entry; which entries remain unfinished is left in the finished flags of the
\* batch: at the failure an entry is unfinished exactly when no ack was ever
\* matched to it, and a finished entry holds an ack with its header and prefix.
C7_TimeoutLeavesFlags ==
    pc = "thrown" =>
        /\ what = "timeout"
        /\ NamedInFailure(what) = {}
        /\ \A i \in Entries :
              /\ ~m_batchRequests[i].finished <=> ackWrites[i] = 0
              /\ ~m_batchRequests[i].finished => m_batchRequests[i].ack = NoAck
              /\ m_batchRequests[i].finished => KeyEq(m_batchRequests[i].ack, m_batchRequests[i])

\* The call failed with its first entry matched and its second one not.
C7_Witness ==
    /\ pc = "thrown"
    /\ Len(m_batchRequests) = 2
    /\ m_batchRequests[1].finished
    /\ ~m_batchRequests[2].finished

\* C8 as stated: the packet of an entry whose transmission received no ack
\* is not transmitted again, and the call does not return normally.
C8_NoRetransmission ==
    [][/\ TxRequest => idx \notin unacked
       /\ pc' = "done" => unacked' = {}]_vars

\* C8 amended: a transmission that received no ack finishes no entry and
\* leaves its own entry unfinished; the packet of such an entry is not
\* transmitted again in the same Sending pass nor before a full run of
\* NumPings probes was sent after that pass, and is transmitted again only in
\* a later Sending pass, the entry being still unfinished.
C8_RetryOnlyAfterProbes ==
    /\ [][((TxRequest \/ TxProbe) /\ ~ack'.ack) =>
            /\ m_batchRequests' = m_batchRequests
            /\ m_numRequestsFinished' = m_numRequestsFinished
            /\ TxRequest => (idx \in unacked' /\ ~m_batchRequests'[idx].finished)]_vars
    /\ [][(TxRequest /\ idx \in unacked) =>
            /\ probesSent = NumPings
            /\ \A k \in 1..Len(passSent) : passSent[k] # idx
            /\ ~m_batchRequests[idx].finished]_vars

\* An entry whose transmission received no ack was transmitted again in a
\* later Sending pass, again without an ack.
C8_Witness ==
    /\ pc = "send"
    /\ probesSent = NumPings
    /\ passSent = <<1>>
    /\ 1 \in unacked
    /\ ~ack.ack
    /\ ~m_batchRequests[1].finished

\* C9: with every send returning and the clock advancing with each send, a
\* handleRequests call that is under way eventually returns normally with all
\* entries finished or fails with timeout.
C9_Terminates ==
    /\ (pc \in {"send", "ping"}) ~>
          ((pc = "thrown" /\ what = "timeout") \/ (pc = "done" /\ FinishedSet = Entries))
    /\ [](pc = "done" => \A i \in Entries : ackWrites[i] > 0)

\* A call whose only entry never got a matching ack went through a whole
\* probe run and a second Sending pass and then failed with timeout.
C9_Witness ==
    /\ pc = "thrown"
    /\ Len(m_batchRequests) = 1
    /\ ackWrites[1] = 0
    /\ 1 \in unacked
    /\ elapsed > NumPings + 1

\* C10: an iteration of the Sending pass transmits the packet of its entry
\* exactly when the entry is unfinished at that moment, hands the ack of that
\* transmission to the matcher within the iteration, and otherwise transmits
\* nothing; the entries transmitted in a pass are in declaration order, each
\* once, and every entry the pass has gone past without transmitting it is
\* finished.
C10_SendingPassOrder ==
    /\ [][(pc = "send" /\ idx <= Len(m_batchRequests) /\ vars' # vars) =>
            IF m_batchRequests[idx].finished
            THEN /\ passSent' = passSent
                 /\ lastTx' = lastTx
                 /\ ack' = ack
                 /\ m_batchRequests' = m_batchRequests
                 /\ idx' = idx + 1
            ELSE /\ passSent' = Append(passSent, idx)
                 /\ lastTx' = m_batchRequests[idx].request
                 /\ offeredAck' = ack'
                 /\ (pc' = "thrown" \/ (pc' = "send" /\ idx' = idx + 1))]_vars
    /\ [](pc \in {"send", "thrown"} =>
            /\ \A k \in 1..Len(passSent) : passSent[k] <= idx /\ passSent[k] \in Entries
            /\ \A k, l \in 1..Len(passSent) : k < l => passSent[k] < passSent[l])
    /\ [](pc = "send" =>
            \A j \in 1..(idx - 1) :
                (\A k \in 1..Len(passSent) : passSent[k] # j) => m_batchRequests[j].finished)
    /\ [][passSent' # passSent =>
            \/ passSent' = <<>>
            \/ pc = "send" /\ ~m_batchRequests[idx].finished]_vars

\* In a Sending pass after a probe run the finished first entry was passed
\* over and the second entry transmitted.
C10_Witness ==
    /\ pc = "send"
    /\ probesSent = NumPings
    /\ Len(m_batchRequests) = 2
    /\ idx = 3
    /\ passSent = <<2>>
    /\ m_batchRequests[1].finished

\* C11: a Sending pass that ends with an entry unfinished is followed by a
\* probe run; every probe transmits the single byte PingByte and hands its
\* ack to the matcher; no entry is transmitted during the run; the run is left
\* for the next Sending pass or for the return only after NumPings probes
\* (whether or not the entries became finished meanwhile) or by the timeout;
\* the call returns only from the end of a Sending pass or of a whole run.
C11_ProbeRunAlternates ==
    /\ [][(pc = "send" /\ pc' = "ping") =>
            (idx > Len(m_batchRequests) /\ FinishedSet # Entries /\ probesSent' = 0)]_vars
    /\ [][(pc = "send" /\ idx > Len(m_batchRequests) /\ FinishedSet # Entries /\ vars' # vars)
            => pc' = "ping"]_vars
    /\ [][TxProbe =>
            /\ lastTx' = <<PingByte>>
            /\ offeredAck' = ack'
            /\ probesSent' = probesSent + 1
            /\ probesSent' <= NumPings
            /\ passSent' = passSent]_vars
    /\ [][(pc = "ping" /\ probesSent < NumPings /\ vars' # vars) =>
            (TxProbe /\ pc' \in {"ping", "thrown"})]_vars
    /\ [][(pc = "ping" /\ pc' \in {"send", "done"}) => probesSent = NumPings]_vars
    /\ [][(pc = "ping" /\ pc' = "send") => (FinishedSet # Entries /\ idx' = 1)]_vars
    /\ [][(pc' = "done" /\ pc # "done") =>
            /\ FinishedSet = Entries
            /\ \/ pc = "send" /\ idx > Len(m_batchRequests)
               \/ pc = "ping" /\ probesSent = NumPings]_vars
    /\ [](pc = "ping" => (sendPing /\ probesSent = pingIdx /\ passSent = <<>>))

\* In the middle of a probe run every entry is already finished, and the run
\* goes on.
C11_Witness ==
    /\ pc = "ping"
    /\ probesSent > 0
    /\ probesSent < NumPings
    /\ Entries # {}
    /\ FinishedSet = Entries
    /\ lastTx = <<PingByte>>

\* The connections whose constructor has returned.
Constructed == {c \in Conns : conn[c].at \in {"ready", "send_cfg", "send_tx", "send_unlock"}}

\* The Crazyradio objects created for device index d.
RadiosOf(d) == {i \in 1..Len(radios) : radios[i].devId = d}

\* C12: for every device index at most one Crazyradio object has been
\* created, and all constructed connections of that index hold the same one.
C12_OneTransportPerDevice ==
    \A d \in DevIds :
        /\ Cardinality(RadiosOf(d)) <= 1
        /\ \A c1, c2 \in Constructed :
              (conn[c1].m_devId = d /\ conn[c2].m_devId = d) =>
                  conn[c1].m_radio = conn[c2].m_radio

\* Two connections of the same device index were constructed and hold two
\* different Crazyradio objects.
C12_Witness ==
    /\ Constructed = Conns
    /\ conn[1].m_devId = conn[2].m_devId
    /\ conn[1].m_radio # conn[2].m_radio
    /\ Cardinality(RadiosOf(conn[1].m_devId)) = 2

\* C13: with one Crazyradio object shared by the connections, every packet
\* goes on the air with the radio's address, channel, data rate and ack mode
\* equal to those of the connection that sent it (ack on for a Crazyflie, off
\* for a CrazyflieBroadcaster).
C13_SentUnderOwnSettings ==
    (onAir.by # 0 /\ Len(radios) = 1) =>
        /\ onAir.address = conn[onAir.by].m_address
        /\ onAir.channel = conn[onAir.by].m_channel
        /\ onAir.datarate = conn[onAir.by].m_datarate
        /\ onAir.ackEnable = AckMode(conn[onAir.by].kind)

\* A CrazyflieBroadcaster transmitted with the ack mode on, on the one radio
\* object there is, while the constructor of another connection was between
\* its setAckEnable(true) and its end.
C13_Witness ==
    /\ Len(radios) = 1
    /\ onAir.by # 0
    /\ conn[onAir.by].kind = "CrazyflieBroadcaster"
    /\ onAir.ackEnable
    /\ \E c \in Conns : conn[c].at = "ctor_arc"

\* ------------------------------------------- TOC discovery, parameter writes

\* C14: a discovery first runs a one-entry batch holding the info request and
\* takes the count from its answer; the second batch holds count item
\* requests (log) or, for parameters, the item request of index i at 2i and
\* the value read of index i at 2i + 1; on normal return the TOC has count
\* entries, entry i has id i and the fields of the answer kept at its request,
\* which carries index i, and the cached value i is that of the value answer
\* carrying index i.
C14_TocDecodedByIndex ==
    /\ [][(pc = "info" /\ pc' = "items") =>
            /\ Len(m_batchRequests) = 1
            /\ submitted = <<IF op.name = "log" THEN <<Crtp(5, 0), 1>> ELSE <<Crtp(2, 0), 1>>>>
            /\ op'.len = m_batchRequests[1].ack.data[3]
            /\ Len(m_batchRequests') = IF op.name = "log" THEN op'.len ELSE 2 * op'.len
            /\ submitted' = submitted \o [k \in 1..Len(m_batchRequests') |->
                                              m_batchRequests'[k].request]
            /\ \A i \in 0..(op'.len - 1) :
                  IF op.name = "log"
                  THEN m_batchRequests'[i + 1].request = <<Crtp(5, 0), 0, i>>
                  ELSE /\ m_batchRequests'[2 * i + 1].request = <<Crtp(2, 0), 0, i>>
                       /\ m_batchRequests'[2 * i + 2].request = <<Crtp(2, 1), i>>]_vars
    /\ []((pc = "done" /\ op.name = "log") =>
            /\ Len(m_logTocEntries) = op.len
            /\ \A i \in 0..(op.len - 1) :
                  LET data == m_batchRequests[i + 1].ack.data
                  IN  /\ data[1] = Crtp(5, 0) /\ data[2] = 0 /\ data[3] = i
                      /\ m_logTocEntries[i + 1] =
                            [id |-> i, type |-> data[4].type, group |-> data[4].group,
                             name |-> data[4].name])
    /\ []((pc = "done" /\ op.name = "param") =>
            /\ Len(m_paramTocEntries) = op.len
            /\ \A i \in 0..(op.len - 1) :
                  LET item == m_batchRequests[2 * i + 1].ack.data
                      val == m_batchRequests[2 * i + 2].ack.data
                  IN  /\ item[1] = Crtp(2, 0) /\ item[2] = 0 /\ item[3] = i
                      /\ val[1] = Crtp(2, 1) /\ val[2] = i
                      /\ m_paramTocEntries[i + 1].id = i
                      /\ m_paramTocEntries[i + 1].readonly = item[4].readonly
                      /\ m_paramTocEntries[i + 1].group = item[4].group
                      /\ m_paramTocEntries[i + 1].name = item[4].name
                      /\ m_paramTocEntries[i + 1].type =
                            item[4].length + 4 * item[4].type + 8 * item[4].sign
                      /\ m_paramValues[i] = val[3])

\* A parameter discovery of two entries returned, the two entries and the two
\* cached values being different.
C14_Witness ==
    /\ pc = "done"
    /\ op.name = "param"
    /\ op.len = 2
    /\ m_paramTocEntries[1].type # m_paramTocEntries[2].type
    /\ m_paramValues[0] # m_paramValues[1]

\* The item batch of the discovery under way timed out.
ItemsTimedOut ==
    /\ pc = "thrown"
    /\ raised = "timeout"
    /\ op.name \in {"log", "param"}
    /\ Len(submitted) > 1

\* C15 as stated: after a timeout of the item batch the TOC has the size of
\* the newly reported count.
C15_TimeoutLeavesResizedToc ==
    ItemsTimedOut =>
        IF op.name = "log" THEN Len(m_logTocEntries) = op.len
        ELSE Len(m_paramTocEntries) = op.len

\* C15 amended: a timeout in a discovery leaves the TOCs and the parameter
\* value cache exactly as they were before the call: nothing is resized or
\* decoded before the item batch has returned normally.
C15_TimeoutLeavesTocUntouched ==
    [][(pc' # "done" \/ pc = "thrown") =>
          UNCHANGED <<m_logTocEntries, m_paramTocEntries, m_paramValues>>]_vars

\* The item batch of a log discovery reporting two entries timed out with
\* one item answered; the TOC still has the one entry of the earlier run.
C15_Witness ==
    /\ ItemsTimedOut
    /\ op.name = "log"
    /\ op.len = 2
    /\ m_batchRequests[1].finished
    /\ ~m_batchRequests[2].finished
    /\ Len(m_logTocEntries) = 1

\* C16: the TOCs change only at the normal end of a discovery; after a
\* parameter discovery has returned the TOC has the entries of that run and
\* the cache holds a value for exactly the ids of that run.
C16_RediscoveryReplacesAll ==
    /\ [][(m_logTocEntries' # m_logTocEntries \/ m_paramTocEntries' # m_paramTocEntries)
            => (pc = "items" /\ pc' = "done")]_vars
    /\ []((pc = "done" /\ op.name = "param") =>
            /\ Len(m_paramTocEntries) = op.len
            /\ DOMAIN m_paramValues = 0..(op.len - 1))

\* A parameter discovery reporting one entry returned and the cache still
\* holds a value for id 1.
C16_Witness ==
    /\ pc = "done"
    /\ op.name = "param"
    /\ op.len = 1
    /\ 1 \in DOMAIN m_paramValues

\* The step of setParam from its call to its throw or its handleRequests call.
SetParamStep == Idle /\ op'.name = "setParam" /\ pc' \in {"write", "thrown"}

InParamToc(id) == \E k \in 1..Len(m_paramTocEntries) : m_paramTocEntries[k].id = id

\* C17: setParam with an id that no entry of the parameter TOC has ends with
\* an exception other than a timeout, hands no request to handleRequests and
\* leaves the TOC and the cache as they were.
C17_UnknownIdRejected ==
    /\ [][(SetParamStep /\ ~InParamToc(op'.id)) =>
            /\ pc' = "thrown"
            /\ raised' \notin {"", "timeout"}
            /\ submitted' = <<>>
            /\ m_batchRequests' = <<>>
            /\ UNCHANGED <<m_paramTocEntries, m_logTocEntries, m_paramValues>>]_vars
    /\ []((pc = "thrown" /\ op.name = "setParam" /\ raised # "timeout") =>
            (~InParamToc(op.id) /\ submitted = <<>>))

\* setParam was called with an id beyond a non-empty TOC and threw.
C17_Witness ==
    /\ pc = "thrown"
    /\ op.name = "setParam"
    /\ raised = "Could not find parameter with id"
    /\ Len(m_paramTocEntries) > 0
    /\ op.id \notin DOMAIN m_paramValues

\* The value width of the seven types, in the order uint8, int8, uint16,
\* int16, uint32, int32, float.
WidthOfType(type) ==
    CASE type \in {ParamTypeUint8, ParamTypeInt8} -> 1
      [] type \in {ParamTypeUint16, ParamTypeInt16} -> 2
      [] type \in {ParamTypeUint32, ParamTypeInt32, ParamTypeFloat} -> 4

\* C18: setParam(id, v) on an entry of one of the seven types hands exactly
\* one write request to handleRequests, carrying id and the low 1, 1, 2, 2, 4,
\* 4 or 4 bytes of v; when handleRequests returns the cache holds v for id and
\* is otherwise as before; when it times out the cache is as before.
C18_ParamRoundTrip ==
    /\ [][(SetParamStep /\ InParamToc(op'.id)
            /\ m_paramTocEntries[op'.id + 1].type \in ParamTypes) =>
            LET w == WidthOfType(m_paramTocEntries[op'.id + 1].type)
            IN  /\ pc' = "write"
                /\ Len(submitted') = 1
                /\ Len(submitted'[1]) = 2 + w
                /\ submitted'[1][1] = Crtp(2, 2)
                /\ submitted'[1][2] = op'.id
                /\ \A k \in 1..w :
                      submitted'[1][2 + k] = (op'.value \div (256 ^ (k - 1))) % 256
                /\ UNCHANGED m_paramValues]_vars
    /\ [][(pc = "write" /\ pc' = "done") =>
            /\ m_batchRequests = m_batchRequests'
            /\ \A k \in 1..Len(m_batchRequests) : m_batchRequests[k].finished
            /\ op.id \in DOMAIN m_paramValues'
            /\ m_paramValues'[op.id] = op.value
            /\ DOMAIN m_paramValues' = (DOMAIN m_paramValues) \cup {op.id}
            /\ \A j \in DOMAIN m_paramValues : j # op.id => m_paramValues'[j] = m_paramValues[j]]_vars
    /\ [][(pc = "write" /\ pc' # "done") => UNCHANGED m_paramValues]_vars

\* setParam wrote the value 66051 to a 16-bit parameter whose cached value
\* was 7: two value bytes went out and the cache holds 66051.
C18_Witness ==
    /\ pc = "done"
    /\ op.name = "setParam"
    /\ op.value = 66051
    /\ m_paramTocEntries[op.id + 1].type = ParamTypeUint16
    /\ submitted = <<<<Crtp(2, 2), op.id, 3, 2>>>>
    /\ m_paramValues[op.id] = 66051

\* The entry setParam's id names is marked readonly.
ReadonlyTarget(id) ==
    \E k \in 1..Len(m_paramTocEntries) :
        m_paramTocEntries[k].id = id /\ m_paramTocEntries[k].readonly

\* C19 as stated: setParam on a readonly entry hands nothing to
\* handleRequests and the cached value is never changed by it.
C19_ReadonlyRejected ==
    /\ [][(SetParamStep /\ ReadonlyTarget(op'.id)) => submitted' = <<>>]_vars
    /\ [][(pc = "write" /\ ReadonlyTarget(op.id)) => UNCHANGED m_paramValues]_vars

\* C19 amended: setParam does not look at the readonly mark: on a readonly
\* entry of one of the seven types it hands the write request to
\* handleRequests like for any other entry, and when handleRequests returns
\* the cached value is the written one; the cache is unchanged only when the
\* batch times out.
C19_ReadonlyWritten ==
    /\ [][(SetParamStep /\ ReadonlyTarget(op'.id)
            /\ m_paramTocEntries[op'.id + 1].type \in ParamTypes) =>
            /\ pc' = "write"
            /\ Len(submitted') = 1
            /\ submitted'[1][1] = Crtp(2, 2)
            /\ submitted'[1][2] = op'.id]_vars
    /\ [][(pc = "write" /\ pc' = "done" /\ ReadonlyTarget(op.id)) =>
            m_paramValues'[op.id] = op.value]_vars
    /\ [][(pc = "write" /\ pc' = "thrown") => UNCHANGED m_paramValues]_vars

\* A write to a readonly parameter went through and changed its cached value.
C19_Witness ==
    /\ pc = "done"
    /\ op.name = "setParam"
    /\ ReadonlyTarget(op.id)
    /\ Len(submitted) = 1
    /\ m_paramValues[op.id] = 66051

\* ------------------------------------------------------- log block registry

\* The ids registerLogBlock can give out that are not registered.
FreeIds == {id \in 0..(NumLogBlockIds - 1) : id \notin DOMAIN m_logBlockCb}

\* C20: while an id below NumLogBlockIds is free, registerLogBlock returns the
\* lowest free id, which no registration holds, and puts the callback under
\* it, leaving every other registration as it was; on a registry holding
\* exactly 0..k-1 it returns k, so that 255 registrations in a row from the
\* empty registry return 0, 1, ..., 254.
C20_LowestFreeId ==
    /\ [][(logCall'.name = "register" /\ FreeIds # {} /\ vars' # vars) =>
            /\ logCall'.returned
            /\ logCall'.ret \in FreeIds
            /\ \A id \in FreeIds : logCall'.ret <= id
            /\ DOMAIN m_logBlockCb' = (DOMAIN m_logBlockCb) \cup {logCall'.ret}
            /\ m_logBlockCb'[logCall'.ret] \in Callbacks
            /\ \A id \in DOMAIN m_logBlockCb : m_logBlockCb'[id] = m_logBlockCb[id]]_vars
    /\ [][(logCall'.name = "register" /\ vars' # vars
            /\ Cardinality(DOMAIN m_logBlockCb) < NumLogBlockIds
            /\ DOMAIN m_logBlockCb = 0..(Cardinality(DOMAIN m_logBlockCb) - 1)) =>
            logCall'.ret = Cardinality(DOMAIN m_logBlockCb)]_vars

\* All of 0..254 are registered and the registration that completed the set
\* returned 254.
C20_Witness ==
    /\ DOMAIN m_logBlockCb = 0..254
    /\ logCall.name = "register"
    /\ logCall.returned
    /\ logCall.ret = 254

\* C21: a registerLogBlock call made with ids 0..254 all registered reports a
\* failure to the caller, hands back no id and leaves the registry unchanged.
C21_ExhaustionReported ==
    [][(logCall'.name = "register" /\ FreeIds = {} /\ vars' # vars) =>
            /\ logCall'.threw
            /\ ~logCall'.returned
            /\ m_logBlockCb' = m_logBlockCb]_vars

\* A registerLogBlock call was made on the full registry: it reached no return
\* statement and raised nothing, and the caller was handed a byte.
C21_Witness ==
    /\ DOMAIN m_logBlockCb = 0..(NumLogBlockIds - 1)
    /\ logCall.name = "register"
    /\ ~logCall.returned
    /\ ~logCall.threw
    /\ logCall.ret \in DOMAIN m_logBlockCb

\* C22: unregisterLogBlock(id) of a registered id takes the id, and nothing
\* else, out of the registry; a registerLogBlock made next returns an id no
\* greater than it, and exactly it when every lower id is in use.
C22_UnregisteredIdReusable ==
    /\ [][(logCall'.name = "unregister" /\ logCall'.found /\ vars' # vars) =>
            /\ logCall'.arg \in DOMAIN m_logBlockCb
            /\ logCall'.arg \notin DOMAIN m_logBlockCb'
            /\ DOMAIN m_logBlockCb' = (DOMAIN m_logBlockCb) \ {logCall'.arg}
            /\ \A id \in DOMAIN m_logBlockCb' : m_logBlockCb'[id] = m_logBlockCb[id]]_vars
    /\ [][(logCall'.name = "register" /\ logCall.name = "unregister" /\ logCall.found
            /\ vars' # vars) =>
            /\ logCall'.returned
            /\ logCall'.ret <= logCall.arg
            /\ ((\A id \in 0..(logCall.arg - 1) : id \in DOMAIN m_logBlockCb) =>
                    logCall'.ret = logCall.arg)
            /\ logCall'.ret \in DOMAIN m_logBlockCb']_vars

\* Id 1 was unregistered while ids 0 and 2 were held, and the registration made
\* next got id 1 again.
C22_Witness ==
    /\ logCall.name = "register"
    /\ logCall.prev = [name |-> "unregister", arg |-> 1, found |-> TRUE]
    /\ logCall.ret = 1
    /\ {0, 1, 2} \subseteq DOMAIN m_logBlockCb

\* ---------------------------------------------------------- log-data frames

\* A log-data frame was handled whose block id is not registered.
UnknownPush ==
    /\ pushed' # pushed
    /\ pushed'.frame[2] \notin DOMAIN m_logBlockCb

\* C23: a log-data frame whose block id is not registered invokes no callback
\* and is logged and dropped; no batch entry is finished by it, the registry
\* is unchanged, and the operation under way goes on with its batch as it was.
C23_UnknownPushDropped ==
    [][UnknownPush =>
            /\ pushed'.invoked = 0
            /\ pushed'.dropped > 0
            /\ m_logBlockCb' = m_logBlockCb
            /\ m_batchRequests' = m_batchRequests
            /\ m_numRequestsFinished' = m_numRequestsFinished
            /\ ackWrites' = ackWrites
            /\ pc' = pc
            /\ raised' = raised]_vars

\* Block 1 was unregistered, a frame for it came in while an item batch with a
\* finished and an open entry was outstanding, and the frame was dropped.
C23_Witness ==
    /\ pc = "items"
    /\ Len(m_batchRequests) = 2
    /\ m_numRequestsFinished = 1
    /\ logCall.name = "unregister" /\ logCall.found /\ logCall.arg = 1
    /\ pushed.frame = crtpLogDataResponse(1, 7)
    /\ pushed.dropped > 0
    /\ pushed.invoked = 0
    /\ 1 \notin DOMAIN m_logBlockCb
    /\ 0 \in DOMAIN m_logBlockCb

\* -------------------------------------------------------- trajectory upload

\* A trajectoryAdd call is inside handleRequests.
InTrajectoryAdd == pc = "traj" /\ op.name = "trajectoryAdd"

\* (offset, size) of the entries of the batch, in order.
FragmentRanges ==
    [k \in 1..Len(m_batchRequests) |->
        <<m_batchRequests[k].request[4], m_batchRequests[k].request[5]>>]

\* The bytes of an entry that an ack has to repeat.
MatchKey(req) == SubSeq(req.request, 1, 1 + req.numBytesToMatch)

\* C24: trajectoryAdd hands handleRequests one batch of six fragment requests,
\* all with the segment id of the call and with (offset, size) = (0,6), (6,6),
\* (12,6), (18,6), (24,6), (30,3); every index 0..32 lies in exactly one
\* fragment's range, no two fragments have the same match key, and the call
\* returns only when all six entries are finished.
C24_SixFragments ==
    /\ [](InTrajectoryAdd =>
            /\ Len(m_batchRequests) = 6
            /\ submitted = [k \in 1..6 |-> m_batchRequests[k].request]
            /\ \A k \in 1..6 : m_batchRequests[k].request[3] = m_lastTrajectoryId
            /\ FragmentRanges = <<<<0, 6>>, <<6, 6>>, <<12, 6>>, <<18, 6>>, <<24, 6>>, <<30, 3>>>>
            /\ \A i \in 0..32 :
                  Cardinality({k \in 1..6 :
                      /\ FragmentRanges[k][1] <= i
                      /\ i < FragmentRanges[k][1] + FragmentRanges[k][2]}) = 1
            /\ \A j, k \in 1..6 :
                  j # k => MatchKey(m_batchRequests[j]) # MatchKey(m_batchRequests[k]))
    /\ [][(InTrajectoryAdd /\ pc' = "done") =>
            /\ m_numRequestsFinished = 6
            /\ \A k \in 1..6 : m_batchRequests[k].finished
            /\ \A k \in 1..6 : ackWrites[k] = 1]_vars

\* All six fragments of a segment were finished, the last one first.
C24_Witness ==
    /\ InTrajectoryAdd
    /\ finishOrder = <<6, 5, 4, 3, 2, 1>>
    /\ m_numRequestsFinished = 6

\* The 33 values given to trajectoryAdd, in the order of the logical array.
Flatten(t) == <<t.duration>> \o t.poly_x \o t.poly_y \o t.poly_z \o t.poly_yaw

\* The 33-slot array written from the fragments: slot offset + j takes value j
\* of the fragment, for j below the fragment's size (slots are numbered from 1
\* here).
Reassemble(reqs) ==
    [i \in 1..33 |->
        LET k == CHOOSE f \in 1..Len(reqs) :
                    /\ reqs[f].request[4] <= i - 1
                    /\ i - 1 < reqs[f].request[4] + reqs[f].request[5]
        IN  reqs[k].request[6][i - reqs[k].request[4]]]

\* C25: the fragments of a trajectoryAdd call, written back by offset and
\* size, give duration, poly_x[0..7], poly_y[0..7], poly_z[0..7],
\* poly_yaw[0..7] as they were passed in.
C25_TrajectoryRoundTrip ==
    InTrajectoryAdd => Reassemble(m_batchRequests) = Flatten(trajInput)

\* A segment is in the batch whose last fragment carries three values of its
\* own and three left over from the fragment before.
C25_Witness ==
    /\ InTrajectoryAdd
    /\ trajInput.duration = 100
    /\ m_batchRequests[6].request[5] = 3
    /\ m_batchRequests[6].request[6] = <<130, 131, 132, 127, 128, 129>>
    /\ Reassemble(m_batchRequests)[33] = 132

\* C26: the segment id is 0 after construction and equals the number of
\* trajectoryAdd calls that returned since construction or since the last
\* trajectoryReset that returned, which is the id the next trajectoryAdd
\* sends; it changes only by +1 when a trajectoryAdd returns and to 0 when a
\* trajectoryReset returns, and not when either fails by timeout or when
\* another operation runs.
C26_SegmentIdCounts ==
    /\ [](m_lastTrajectoryId = addsSinceReset)
    /\ [](InTrajectoryAdd =>
            \A k \in 1..Len(m_batchRequests) :
                m_batchRequests[k].request[3] = addsSinceReset)
    /\ [][m_lastTrajectoryId' # m_lastTrajectoryId =>
            /\ pc = "traj" /\ pc' = "done"
            /\ AllFinished(m_numRequestsFinished, m_batchRequests)
            /\ \/ op.name = "trajectoryAdd" /\ m_lastTrajectoryId' = m_lastTrajectoryId + 1
               \/ op.name = "trajectoryReset" /\ m_lastTrajectoryId' = 0]_vars
    /\ [][(pc = "traj" /\ pc' = "done" /\ op.name = "trajectoryAdd") =>
            m_lastTrajectoryId' = m_lastTrajectoryId + 1]_vars
    /\ [][(pc = "traj" /\ pc' = "done" /\ op.name = "trajectoryReset") =>
            m_lastTrajectoryId' = 0]_vars
    /\ [][pc' = "thrown" => m_lastTrajectoryId' = m_lastTrajectoryId]_vars

\* The second trajectoryAdd is under way with id 1, a log TOC discovery having
\* run on the connection before it.
C26_Witness ==
    /\ InTrajectoryAdd
    /\ addsSinceReset = 1
    /\ m_batchRequests[1].request[3] = 1
    /\ m_logTocEntries # <<>>

\* ------------------------------------------------------------- link quality

\* 1 for an acknowledged send.
AckCount(acked) == IF acked THEN 1 ELSE 0

\* C27: every send adds one to the attempt counter and every acknowledged
\* send one to the ack counter; at every 100th send, and at no other, both
\* counters go back to zero and the observer of the sending object, if one is
\* set, is handed exactly one sample acks/attempts with 0 <= acks <= attempts
\* = 100; the attempt counter never exceeds 100 and the ack counter never
\* exceeds the attempt counter.
C27_LinkQualityWindow ==
    /\ [](numPackets = sent % NumWindow)
    /\ [](numPackets <= NumWindow /\ numAcks <= numPackets)
    /\ [][sent' = sent + 1 =>
            IF (sent + 1) % NumWindow = 0
            THEN /\ numPackets' = 0
                 /\ numAcks' = 0
                 /\ lastSend'.samples =
                        IF m_linkQualityCallback[lastSend'.by]
                        THEN <<[acks |-> numAcks + AckCount(lastSend'.acked),
                                attempts |-> NumWindow]>>
                        ELSE <<>>
                 /\ \A k \in 1..Len(lastSend'.samples) :
                        /\ 0 <= lastSend'.samples[k].acks
                        /\ lastSend'.samples[k].acks <= lastSend'.samples[k].attempts
            ELSE /\ numPackets' = numPackets + 1
                 /\ numAcks' = numAcks + AckCount(lastSend'.acked)
                 /\ lastSend'.samples = <<>>]_vars

\* The 200th send was made by object 2 and handed its observer the second
\* sample, 100 attempts of which 99 were acknowledged.
C27_Witness ==
    /\ sent = 200
    /\ lastSend.by = 2
    /\ lastSend.samples = <<[acks |-> 99, attempts |-> 100]>>
    /\ ~lastSend.acked
    /\ numPackets = 0
    /\ numAcks = 0

\* --------------------------------------------------- construction from a URI

\* radio://<dev>/<channel>/<rate><K|M>[/<hex-address>] with rate 250K, 1M or
\* 2M, or usb://<dev>.
WellFormed(uri) ==
    \/ /\ uri.scheme = "radio"
       /\ Len(uri.items) \in {4, 5}
       /\ \A k \in 1..Len(uri.items) : uri.items[k].kind = (IF k = 4 THEN "chr" ELSE "num")
       /\ <<uri.items[3].v, uri.items[4].v>> \in {<<250, 75>>, <<1, 77>>, <<2, 77>>}
    \/ /\ uri.scheme = "usb"
       /\ Len(uri.items) = 1
       /\ uri.items[1].kind = "num"

\* The device index of a well-formed URI is one the driver supports.
InRange(uri) ==
    IF uri.scheme = "radio" THEN uri.items[1].v \in 0..(MAX_RADIOS - 1)
    ELSE uri.items[1].v \in 0..(MAX_USB - 1)

\* C28: a constructor call with a URI that is malformed, or whose device
\* index is outside 0..15 (radio) or 0..3 (USB), ends in an exception and
\* leaves no connection.
C28_BadUriRejected ==
    (ctor.outcome # "none" /\ (~WellFormed(ctor.uri) \/ ~InRange(ctor.uri))) =>
        ctor.outcome = "thrown"

\* A Crazyflie was constructed from a radio URI with device index -1.
C28_Witness ==
    /\ ctor.kind = "Crazyflie"
    /\ ctor.uri = [scheme |-> "radio", items |-> <<Num(-1), Num(1), Num(250), Chr(75)>>]
    /\ ctor.m_devId = -1
    /\ ctor.outcome = "constructed"

\* ------------------------------------------------------------------ reboot

\* What the call has sent and where it stands agree with the order the two
\* packets are due in.
RebootInOrder ==
    /\ ~rebootTx.early
    /\ rebootTx.secondSent => rebootTx.initAcked
    /\ rebootTx.secondSent =>
           rebootTx.second = (IF rebootAt.op = "reboot" THEN reboot_to_firmware
                              ELSE reboot_to_bootloader)
    /\ rebootAt.at = "returned" => (rebootTx.initAcked /\ rebootTx.secondAcked)

\* Each of the two packets is acked at some time while the call resends it.
EachEventuallyAcked ==
    /\ (rebootAt.at = "init") ~> rebootTx.initAcked
    /\ (rebootAt.at = "second") ~> rebootTx.secondAcked

\* C29: reboot and rebootToBootloader never transmit their second packet
\* before the init packet was acked, return only after both were acked, and
\* return eventually when each packet is eventually acked.
C29_RebootOrder ==
    /\ []RebootInOrder
    /\ EachEventuallyAcked => ((rebootAt.at = "init") ~> (rebootAt.at = "returned"))

\* rebootToBootloader returned after an unacked init packet and an unacked
\* second packet were resent and then acked.
C29_Witness ==
    /\ rebootAt = [op |-> "rebootToBootloader", at |-> "returned"]
    /\ rebootTx.second = reboot_to_bootloader
    /\ rebootTx.initAcked /\ rebootTx.secondAcked
    /\ numPackets >= 4
    /\ numAcks = 2

\* ----------------------------------------------- external position broadcast

\* What a slot holds of a state handed in.
Encoded(st) ==
    [id |-> st.id, x |-> single2half(st.x), y |-> single2half(st.y),
     z |-> single2half(st.z), yaw |-> single2half(st.yaw)]

\* ceil(n / 3)
CeilThird(n) == (n + 2) \div 3

\* C30: sendPositionExternal for n states sends ceil(n/3) packets; state i
\* is in packet i div 3 at slot i mod 3, and every slot no state was put in
\* carries id 0.
C30_PositionPacking ==
    LET n == Len(posCall.data)
        packets == posCall.packets
    IN  posCall.by # 0 =>
          /\ Len(packets) = CeilThird(n)
          /\ \A i \in 0..(n - 1) :
                packets[(i \div 3) + 1][(i % 3) + 1] = Encoded(posCall.data[i + 1])
          /\ \A p \in 1..Len(packets) : \A k \in 1..3 :
                3 * (p - 1) + (k - 1) >= n => packets[p][k].id = 0

\* A call with four states sent two packets, the second holding one state.
C30_Witness ==
    /\ posCall.by # 0
    /\ Len(posCall.data) = 4
    /\ Len(posCall.packets) = 2
    /\ posCall.data[4].id = 2
    /\ posCall.packets[2][1].id = 2
    /\ posCall.packets[2][2].id = 0

\* ------------------------------------------------ matched acks and handleAck

\* C31: an ack received by a transmission of handleRequests that finds a
\* pending entry is consumed by the batch system only: handleAck is not run
\* for it.
C31_MatchedAckNotGeneric ==
    [][((TxRequest \/ TxProbe) /\ ack'.ack /\ Pending(ack') # {}) =>
            numHandleAck' = 0]_vars

\* The transmission of the only entry of a batch came back with the ack that
\* finished the entry, and handleAck ran for that ack.
C31_Witness ==
    /\ pc \in {"send", "done"}
    /\ Len(m_batchRequests) = 1
    /\ passSent = <<1>>
    /\ ack.ack
    /\ m_batchRequests[1].finished
    /\ KeyEq(m_batchRequests[1].ack, m_batchRequests[1])
    /\ numHandleAck = 1

\* ------------------------------------------------ finished before transmitted

\* This step marked entry i finished.
NewlyFinished(i) ==
    /\ i \in Entries
    /\ ~m_batchRequests[i].finished
    /\ m_batchRequests'[i].finished

\* C32: within a handleRequests call an entry is marked finished only when
\* its own packet has been transmitted at least once in that call.
C32_FinishedOnlyAfterSent ==
    [][\A i \in 1..MaxBatch : (InCall /\ NewlyFinished(i)) => i \in everSent']_vars

\* The transmission of the first entry of a batch of two came back with an
\* ack of the second entry's key, which finished the second entry although
\* its packet was never transmitted.
C32_Witness ==
    /\ pc = "send"
    /\ Len(m_batchRequests) = 2
    /\ everSent = {1}
    /\ lastTx = m_batchRequests[1].request
    /\ ~m_batchRequests[1].finished
    /\ m_batchRequests[2].finished
    /\ m_batchRequests[2].ack = ack

\* ------------------------------------------------ unregistering an unknown id

\* C33: unregisterLogBlock called with an id that is not registered leaves
\* the registry of block callbacks as it was.
C33_UnknownUnregisterNoOp ==
    [][(logCall'.name = "unregister" /\ logCall'.arg \notin DOMAIN m_logBlockCb) =>
            m_logBlockCb' = m_logBlockCb]_vars

\* Right after a registerLogBlock call, an unregisterLogBlock call with id 2,
\* which was not registered, left the registry empty: the block registered
\* before is gone.
C33_Witness ==
    /\ logCall.name = "unregister"
    /\ logCall.arg = 2
    /\ ~logCall.found
    /\ logCall.prev.name = "register"
    /\ DOMAIN m_logBlockCb = {}

\* ------------------------------------------------ failed construction

\* C34: a Crazyflie constructor call that ends in an exception creates no
\* radio and no USB transport object: the global tables are as before.
C34_FailedCtorLeavesTables ==
    [][(ctor'.kind = "Crazyflie" /\ ctor'.outcome = "thrown") =>
            /\ g_crazyradios' = g_crazyradios
            /\ radios' = radios
            /\ g_crazyflieUSB' = g_crazyflieUSB]_vars

\* Crazyflie("radio://2/<text>") threw "Uri is not valid!" and the USB table
\* holds a transport object for index 2.
C34_Witness ==
    /\ ctor.kind = "Crazyflie"
    /\ ctor.uri = [scheme |-> "radio", items |-> <<Num(2), Junk>>]
    /\ ctor.outcome = "thrown"
    /\ ctor.what = "Uri is not valid!"
    /\ g_crazyflieUSB = {2}

\* ------------------------------------------------------------ joystick manager

\* The button each action belongs to.
OwnButton ==
    [a \in {"emergency", "takeoff", "land", "startTrajectory", "uploadTrajectory", "ellipse"}
       |-> CASE a = "emergency" -> Red
             [] a = "takeoff" -> Start
             [] a = "land" -> Back
             [] a = "startTrajectory" -> Yellow
             [] a = "uploadTrajectory" -> Blue
             [] a = "ellipse" -> Green]

\* The button went from 0 in the previous message to 1 in this one.
RisingEdge(button, prev, buttons) ==
    /\ Len(prev) >= COUNT
    /\ Len(buttons) >= COUNT
    /\ prev[button + 1] = 0
    /\ buttons[button + 1] = 1

\* How often the call invoked the action.
TimesInvoked(a) == Cardinality({k \in 1..Len(joyCall.invoked) : joyCall.invoked[k] = a})

\* C35: a joyChanged call invokes each action once when its own button shows
\* a rising edge against the previous message, and not at all otherwise.
C35_OncePerRisingEdge ==
    joyCall.handled =>
        \A a \in DOMAIN OwnButton :
            TimesInvoked(a) =
                (IF RisingEdge(OwnButton[a], joyCall.prev, joyCall.buttons) THEN 1 ELSE 0)

\* Green was down in the previous message and is still down, Blue was up:
\* the call invoked ellipse again.
C35_Witness ==
    /\ joyCall.handled
    /\ Len(joyCall.prev) = COUNT
    /\ joyCall.prev[Green + 1] = 1
    /\ joyCall.prev[Blue + 1] = 0
    /\ joyCall.buttons = joyCall.prev
    /\ joyCall.invoked = <<"ellipse">>

====
